---- MODULE Spec2Model ----
(***************************************************************************)
(* Authentication core of go-starter: rotating API refresh tokens with     *)
(* reuse detection (internal/postgres UserAuthStore + internal/server      *)
(* api_refresh_tokens.go, api_auth.go) and database-backed web sessions    *)
(* (internal/server web_auth_session.go, handler.go).                      *)
(*                                                                         *)
(* Granularity: one step per SQL statement.  A statement sees the rows     *)
(* committed when it runs; the writes of an open transaction stay in the   *)
(* transaction (call[p].ins / .mark / .revoked) until its commit; a        *)
(* statement that needs a row locked by another transaction is not enabled *)
(* until that transaction has ended.  Every statement may fail.            *)
(***************************************************************************)
EXTENDS Integers, FiniteSets, Sequences, TLC

\* ---------------------------------------------------------------- bounds
MaxTime == 3
MaxRows == 3
NumRawTokens == 3
NumUsers == 2
MaxSessions == 2
MaxFlows == 2
MaxUserRows == 2
MaxLimiterTime == 4
\* the clock of the runs against the session table stops here
MaxSessionTime == 4

\* two request goroutines, enough for every race between two requests
Procs == {1, 2}
RawTokens == 1..NumRawTokens
Users == 1..NumUsers
SessionTokens == 1..MaxSessions

\* ------------------------------------------------------ program constants
\* SQL null / Go nil pointer of the nullable columns
NULL == 0
\* the empty family id ("")
NoFamily == 0
\* handler.apiRefreshTokenTTL, in clock ticks
apiRefreshTokenTTL == 1
\* handler.sessionTTL, in clock ticks
sessionTTL == 2
\* the 10 minutes after which loadSession refreshes last_seen_at: one tick
touchAfter == 1
\* the ttl of the oauthFlowStore of the handler (6 minutes): one tick
oauthFlowTTL == 1
\* handler.apiAccessTokenTTL, in clock ticks
apiAccessTokenTTL == 1
\* handler.apiAccessTokenSecret
apiAccessTokenSecret == "secret"
\* time.Second in ticks of the clock the rate limiter reads
UnitsPerSecond == 2
\* authRateLimiter.limit, as in the limiter of the middleware test
limit == 2
\* authRateLimiter.window: half a second
window == 1

VARIABLES
    clock,               \* time.Now()
    api_refresh_tokens,  \* committed rows of table api_refresh_tokens
    pc,                  \* position of each request goroutine
    call,                \* locals of the request each goroutine is serving
    resp,                \* HTTP response written in the last step, if any
    user_sessions,       \* rows of table user_sessions
    sessionSeq,          \* identity sequence of user_sessions.id
    wpc,                 \* position of each web request goroutine
    wcall,               \* locals of the web request it is serving
    wresp,               \* what the web middleware did in the last step
    flows,               \* oauthFlowStore.flows, as the set of its records
    flowSeq,             \* number of the next state randomToken(24) gives
    ocall,               \* the oauthFlowStore call each goroutine is in
    oresp,               \* what the oauthFlowStore call of the last step
                         \* returned
    users,               \* rows of table users
    user_identities,     \* rows of table user_identities
    ucall,               \* position and locals of the sign-in each
                         \* goroutine is in
    uresp,               \* what the sign-in that ended in the last step
                         \* returned
    buckets,             \* authRateLimiter.buckets, the zero bucket for a
                         \* key the map does not hold
    lcall,               \* the limitByIP call each goroutine is in
    lresp                \* what the limitByIP handler of the last step did

tokenVars == <<api_refresh_tokens, pc, call>>
webVars == <<user_sessions, sessionSeq, wpc, wcall>>
flowVars == <<flows, flowSeq, ocall>>
userVars == <<users, user_identities, ucall>>
\* the variables of the API tokens and web sessions
authVars == <<tokenVars, resp, webVars, wresp>>
\* the variables of the other parts of the handler
limiterVars == <<buckets, lcall>>
otherVars == <<flowVars, oresp, userVars, uresp, limiterVars, lresp>>

\* ------------------------------------------------------------ token codec
\* hex(sha256(trim(raw))): an injective digest, never the raw value
hashToken(raw) == <<"sha256", raw>>

\* ------------------------------------------------------------------- rows
NewRow(id, u, f, h, exp) ==
    [id |-> id, user_id |-> u, family_id |-> f, token_hash |-> h,
     expires_at |-> exp, last_used_at |-> NULL, revoked_at |-> NULL,
     replaced_by_token_id |-> NULL]

NoRow == NewRow(NULL, NULL, NoFamily, <<>>, NULL)

coalesce(a, b) == IF a # NULL THEN a ELSE b

RowsByHash(T, h) == {r \in T : r.token_hash = h}

\* the rows of a family that have a successor
RowsByFamily_Replaced(T, f) ==
    {r \in T : r.family_id = f /\ r.replaced_by_token_id # NULL}

RowsByFamily(T, f) == {r \in T : r.family_id = f}

\* the family update without coalesce: revoked_at is overwritten
RevokeFamilyRows_Overwrite(T, f, now) ==
    {IF r.family_id = f THEN [r EXCEPT !.revoked_at = now] ELSE r : r \in T}

\* update api_refresh_tokens set revoked_at = coalesce(revoked_at, $2)
\*   where family_id = $1
RevokeFamilyRows(T, f, now) ==
    {IF r.family_id = f
        THEN [r EXCEPT !.revoked_at = coalesce(r.revoked_at, now)]
        ELSE r : r \in T}

\* the revocation that changes no row
RevokeHashRows_Noop(T, h, now) == T

\* the revocation by hash that takes the whole family of the row
RevokeHashRows_Family(T, h, now) ==
    {IF \E x \in T : x.token_hash = h /\ x.family_id = r.family_id
        THEN [r EXCEPT !.revoked_at = coalesce(r.revoked_at, now)]
        ELSE r : r \in T}

\* update api_refresh_tokens set revoked_at = coalesce(revoked_at, $2)
\*   where token_hash = $1
RevokeHashRows(T, h, now) ==
    {IF r.token_hash = h
        THEN [r EXCEPT !.revoked_at = coalesce(r.revoked_at, now)]
        ELSE r : r \in T}

\* the reuse test with only the expiry check
IsReuse_ExpiryOnly(current, now) == now > current.expires_at

\* the reuse test without the expiry check
IsReuse_NoExpiry(current, now) ==
    \/ current.revoked_at # NULL
    \/ current.replaced_by_token_id # NULL

\* a reuse test that does not look at revoked_at
IsReuse_ReplacedOrExpired(current, now) ==
    current.replaced_by_token_id # NULL \/ now > current.expires_at

\* if current.RevokedAt != nil || current.ReplacedByTokenID != nil
\*    || now.After(current.ExpiresAt)
IsReuse(current, now) ==
    \/ current.revoked_at # NULL
    \/ current.replaced_by_token_id # NULL
    \/ now > current.expires_at

\* the old row is left as it was
MarkRotated_Noop(T, id, now, newID) == T

\* the old row is marked without last_used_at
MarkRotated_NoLastUsed(T, id, now, newID) ==
    {IF r.id = id
        THEN [r EXCEPT !.revoked_at = now, !.replaced_by_token_id = newID]
        ELSE r : r \in T}

\* update ... set last_used_at = $2, revoked_at = $2,
\*   replaced_by_token_id = $3 where id = $1
MarkRotated(T, id, now, newID) ==
    {IF r.id = id
        THEN [r EXCEPT !.last_used_at = now, !.revoked_at = now,
                       !.replaced_by_token_id = newID]
        ELSE r : r \in T}

\* ------------------------------------------------- transactions and locks
NoResult ==
    [err |-> FALSE, UserID |-> NULL, FamilyID |-> NoFamily,
     ReuseDetected |-> FALSE, Authorized |-> FALSE]

NoCall ==
    [raw |-> NULL, now |-> NULL, current |-> NoRow, ins |-> NoRow,
     mark |-> FALSE, revoked |-> {}, locks |-> {}, aborted |-> FALSE,
     result |-> NoResult]

\* a signed JWT: the method of its header, the key its signature was made
\* with, and of its claims sub, sid, exp and nbf (NULL: absent); the
\* empty string is NoAccessToken
NoAccessToken ==
    [alg |-> "", key |-> "", sub |-> "", sid |-> NoFamily, exp |-> NULL,
     nbf |-> NULL]

\* the Authorization header: "<scheme> <token>", no header at all being
\* the blank scheme without token
NoHeader == [scheme |-> "", token |-> NoAccessToken]

\* parsedAPIAccessToken
NoClaims == [UserID |-> NULL, SessionID |-> NoFamily]

\* what an API handler wrote to its http.ResponseWriter, with the request
\* it answers (raw: the refresh token presented, family: the family id
\* passed to the store, header: the Authorization header, request: the
\* provider and the body of a login and whether its verifier failed, user:
\* the id of the user in the body of the answer) and the store
\* result behind the answer; for requireAPIAuth the time of the
\* validation, the claims it put in the request context and whether it
\* called the downstream handler
NoResp ==
    [op |-> "none", raw |-> NULL, family |-> NoFamily, status |-> NULL,
     message |-> "", access_token |-> NoAccessToken,
     refresh_token |-> NULL, cookie |-> "none", result |-> NoResult,
     header |-> NoHeader, now |-> NULL, claims |-> NoClaims,
     next |-> FALSE, user |-> NULL, request |-> <<>>]

\* a select without "for update" takes no lock
ForUpdate_NoLock(cur) == {}

\* the rows a "select ... for update" that returned cur keeps locked
ForUpdate(cur) == {cur.id}

\* the row is locked (select for update / update) by a transaction of
\* another goroutine that has not ended
LockedByOther(p, id) == \E q \in Procs \ {p} : id \in call[q].locks

\* another open transaction has inserted a row with this hash: the unique
\* index makes the second insert wait for the first transaction's end
PendingInsertByOther(p, h) ==
    \E q \in Procs \ {p} : call[q].ins # NoRow /\ call[q].ins.token_hash = h

Free(p) == pc[p] = "idle"

\* ------------------------------------------------------------ web sessions
NewSession(id, u, h, exp, seen) ==
    [id |-> id, user_id |-> u, token_hash |-> h, expires_at |-> exp,
     last_seen_at |-> seen, revoked_at |-> NULL]

NoSession == NewSession(NULL, NULL, <<>>, NULL, NULL)

\* locals of loadSession between the lookup and the check
NoWCall == [path |-> <<>>, token |-> NULL, sess |-> NoSession]

\* what a web handler or middleware did: the cookie it wrote, the user it
\* put in the request context, whether it called the downstream handler,
\* the redirect it answered; with the request (path, the session cookie
\* it carried, the token read from it) and, for loadSession, the session
\* row it had read and the time.Now() it used
NoWResp ==
    [op |-> "none", path |-> <<>>, sent |-> NULL, token |-> NULL,
     sess |-> NoSession,
     lookupErr |-> FALSE, now |-> NULL, cookie |-> "none",
     currentUser |-> NULL, next |-> FALSE, redirect |-> "", err |-> FALSE,
     status |-> NULL, htmx |-> FALSE, hxRedirect |-> "", dropped |-> FALSE]

\* ------------------------------------------------------------ OAuth flows
Providers == {"google", "github"}
RedirectTargets == {"/account"}

NoFlow == [State |-> NULL, Provider |-> "", CodeVerifier |-> NULL,
           RedirectTo |-> "", ExpiresAt |-> NULL]

\* a goroutine that is in no oauthFlowStore call
NoOCall == [op |-> "none", state |-> NULL, provider |-> "",
            redirectTo |-> "", now |-> NULL]

\* the call that returned, the record it found under the state before
\* validating it, the record and the error it returned
NoOResp == [op |-> "none", state |-> NULL, provider |-> "", now |-> NULL,
            found |-> NoFlow, record |-> NoFlow, err |-> ""]

\* ---------------------------------------------------- users, identities
\* the strings of the model with their strings.ToLower and
\* strings.TrimSpace
ToLower(str) == IF str = "A@X" THEN "a@x" ELSE str
TrimSpace(str) == IF str = " " THEN "" ELSE str

\* user.SocialProfile: the profiles with the provider's user id and no
\* email, an email that is verified or not, or a verified one in upper
\* case, and a profile with a blank id; no name, username or avatar
SocialProfiles ==
    {profile \in [Provider : Providers, ProviderUserID : {"u1", " "},
                  Email : {"", "a@x", "A@X"}, EmailVerified : BOOLEAN,
                  Name : {""}, Username : {""}, AvatarURL : {""}] :
        /\ profile.ProviderUserID = " " =>
              /\ profile.Provider = "google"
              /\ profile.Email = "a@x"
              /\ profile.EmailVerified
        /\ profile.Email = "" => ~profile.EmailVerified
        /\ profile.Email = "A@X" => profile.EmailVerified}

NoProfile == [Provider |-> "", ProviderUserID |-> "", Email |-> "",
              EmailVerified |-> FALSE, Name |-> "", Username |-> "",
              AvatarURL |-> ""]

\* SQL null in a text column
NullText == "<null>"

\* ---------------------------------------------------------- access tokens
DecimalDigits == <<"0", "1", "2", "3", "4", "5", "6", "7", "8", "9">>

\* the decimal digits of a natural number
RECURSIVE FormatDecimal(_)
FormatDecimal(n) ==
    IF n < 10
    THEN DecimalDigits[n + 1]
    ELSE FormatDecimal(n \div 10) \o DecimalDigits[(n % 10) + 1]

\* strconv.FormatInt(userID, 10)
formatUserID(userID) ==
    IF userID < 0
    THEN "-" \o FormatDecimal(0 - userID)
    ELSE FormatDecimal(userID)

\* the number a string of decimal digits stands for after the digits
\* that gave acc, -1 if one of its characters is no digit
RECURSIVE ParseDecimal(_, _)
ParseDecimal(str, acc) ==
    IF str = ""
    THEN acc
    ELSE LET c == SubSeq(str, 1, 1)
             d == IF \E i \in 1..10 : DecimalDigits[i] = c
                  THEN (CHOOSE i \in 1..10 : DecimalDigits[i] = c) - 1
                  ELSE -1
         IN  IF d < 0
             THEN -1
             ELSE ParseDecimal(SubSeq(str, 2, Len(str)), acc * 10 + d)

\* strconv.ParseInt(strings.TrimSpace(value), 10, 64): an optional sign
\* and at least one digit
parseUserID(value) ==
    LET str == TrimSpace(value)
        sign == IF str # "" /\ SubSeq(str, 1, 1) \in {"-", "+"}
                THEN SubSeq(str, 1, 1) ELSE ""
        digits == IF sign = "" THEN str ELSE SubSeq(str, 2, Len(str))
        n == ParseDecimal(digits, 0)
    IN  IF digits = "" \/ n < 0
        THEN [err |-> TRUE, value |-> 0]
        ELSE [err |-> FALSE, value |-> IF sign = "-" THEN 0 - n ELSE n]

\* issueAPIAccessToken: the signed token and its expiry
issueAPIAccessToken(userID, sessionID, now) ==
    IF userID <= 0 \/ TrimSpace(apiAccessTokenSecret) = ""
    THEN [err |-> TRUE, token |-> NoAccessToken, expiresAt |-> NULL]
    ELSE [err |-> FALSE,
          token |-> [alg |-> "HS256", key |-> apiAccessTokenSecret,
                     sub |-> formatUserID(userID), sid |-> sessionID,
                     exp |-> now + apiAccessTokenTTL, nbf |-> NULL],
          expiresAt |-> now + apiAccessTokenTTL]

\* a key function that gives the secret for every HMAC method
keyfuncAccepts_AnyHMAC(alg) == alg \in {"HS256", "HS512"}

\* the key function of parseAPIAccessToken: the secret for HS256, an
\* error for every other method
keyfuncAccepts(alg) == alg = "HS256"

\* jwt.ParseWithClaims without options, after the signature: exp and nbf
\* are checked when the token has them
registeredClaimsValid(token, now) ==
    /\ token.exp # NULL => now < token.exp
    /\ token.nbf # NULL => now >= token.nbf

\* a validation that asks the store whether the family is still alive
parseAPIAccessToken_LiveFamily(token, now) ==
    LET userID == parseUserID(token.sub)
        failed == [err |-> TRUE, claims |-> NoClaims]
    IN  IF \/ token = NoAccessToken
           \/ ~keyfuncAccepts(token.alg)
           \/ token.key # apiAccessTokenSecret
           \/ ~registeredClaimsValid(token, now)
           \/ userID.err
           \/ \A r \in api_refresh_tokens :
                 r.family_id = token.sid => r.revoked_at # NULL
        THEN failed
        ELSE [err |-> FALSE,
              claims |-> [UserID |-> userID.value, SessionID |-> token.sid]]

\* parseAPIAccessToken at time now
parseAPIAccessToken(token, now) ==
    LET userID == parseUserID(token.sub)
        failed == [err |-> TRUE, claims |-> NoClaims]
    IN  IF token = NoAccessToken \/ TrimSpace(apiAccessTokenSecret) = ""
        THEN failed
        ELSE IF ~keyfuncAccepts(token.alg)
        THEN failed
        ELSE IF token.key # apiAccessTokenSecret
        THEN failed
        ELSE IF ~registeredClaimsValid(token, now)
        THEN failed
        ELSE IF userID.err
        THEN failed
        ELSE [err |-> FALSE,
              claims |-> [UserID |-> userID.value, SessionID |-> token.sid]]

\* bearerTokenFromRequest, with
\* strings.EqualFold(authHeader[:7], "Bearer ")
bearerTokenFromRequest(header) ==
    IF header.scheme \in {"Bearer", "bearer", "BEARER"}
    THEN header.token
    ELSE NoAccessToken

\* the Authorization headers: every token as a Bearer token, and a token
\* the handler issues under other schemes.  The subjects of the tokens
\* are the user ids as issueAPIAccessToken writes them, other integers,
\* and strings that are none; the tokens have every method, key (the
\* secret of the handler, another, none for an unsigned token), subject,
\* family, expiry and not-before time.
AuthorizationHeaders ==
    LET Subjects ==
           {formatUserID(u) : u \in Users} \cup {"0", "-1", "", "x1"}
        BearerTokens ==
           {t \in [alg : {"HS256", "HS512", "none"},
                    key : {apiAccessTokenSecret, "other", ""},
                    sub : Subjects, sid : {NoFamily, 1},
                    exp : {NULL} \cup 2..(MaxTime + apiAccessTokenTTL),
                    nbf : {NULL, 2}] :
               /\ (t.key = "") = (t.alg = "none")
               /\ t.nbf # NULL => t.exp = NULL}
    IN  {[scheme |-> "Bearer", token |-> t] : t \in BearerTokens}
        \cup {[scheme |-> sch,
                token |-> issueAPIAccessToken(1, 1, MaxTime).token] :
                  sch \in {"bearer", "Basic", ""}}
        \cup {NoHeader}

\* a row of users
NoUser == [id |-> NULL, email |-> NullText, display_name |-> "",
           avatar_url |-> NullText]

\* a row of user_identities, with the columns the sign-in reads or writes
NoIdentity == [user_id |-> NULL, provider |-> "",
               provider_user_id |-> "", provider_email |-> NullText]

\* a goroutine that is in no sign-in; ins_user and ins_identity are the
\* rows its open transaction has inserted; caller is the handler that
\* runs the sign-in ("": none, the sign-in is followed on its own), flow
\* the record oauthCallback consumed, ret_user and ret_err what the
\* sign-in returned to the handler
NoUCall == [pc |-> "idle", profile |-> NoProfile, found |-> NoUser,
            ins_user |-> NoUser, ins_identity |-> NoIdentity,
            caller |-> "", flow |-> NoFlow, ret_user |-> NoUser,
            ret_err |-> ""]

\* the profile of the sign-in, the user and the error it returned
NoUResp == [op |-> "none", profile |-> NoProfile, user |-> NoUser,
            err |-> ""]

\* ------------------------------------------------------- rate limiter
\* the path of the route of a scope
RoutePath(scope) ==
    IF scope = "api_auth_refresh" THEN "/api/auth/refresh"
    ELSE "/auth/login/google"

\* the client address with its port kept
normalizedClientIP_KeepPort(remoteAddr) ==
    IF remoteAddr = "" THEN "unknown" ELSE remoteAddr

\* normalizedClientIP: "unknown" for a blank RemoteAddr, else the address
\* of netip.ParseAddrPort
normalizedClientIP(remoteAddr) ==
    CASE remoteAddr = "" -> "unknown"
      [] remoteAddr \in {"198.51.100.10:1000", "198.51.100.10:1001"}
            -> "198.51.100.10"
      [] remoteAddr = "198.51.100.11:1002" -> "198.51.100.11"
      [] OTHER -> remoteAddr

\* key := scope + ":" + normalizedClientIP(r)
limiterKey(scope, remoteAddr) ==
    scope \o ":" \o normalizedClientIP(remoteAddr)

\* the requests of the model, by scope and r.RemoteAddr: two ports of
\* one address and another address on the web route, one address on the
\* API route and on a route with a blank scope
LimiterRequests ==
    {r \in {"web_oauth_start", "api_auth_refresh", " "}
            \X {"198.51.100.10:1000", "198.51.100.10:1001",
                "198.51.100.11:1002"} :
        r[1] # "web_oauth_start" => r[2] = "198.51.100.10:1000"}

Keys == {limiterKey(r[1], r[2]) :
            r \in {x \in LimiterRequests : TrimSpace(x[1]) # ""}}

\* authRateLimitBucket{}: what the map gives for a key it does not hold
ZeroBucket == [windowStart |-> 0, count |-> 0, lastSeenAt |-> 0]

\* a goroutine that is in no limitByIP handler
NoLCall == [pc |-> "idle", scope |-> "", addr |-> "", key |-> "",
            now |-> NULL]

\* the request of the handler that ended, the bucket allow found under
\* its key, the status and the Retry-After it wrote (NULL: none), and
\* whether it called next.ServeHTTP
NoLResp == [op |-> "none", scope |-> "", addr |-> "", key |-> "",
            now |-> NULL, found |-> ZeroBucket, status |-> NULL,
            retryAfter |-> NULL, body |-> "", next |-> FALSE]

\* rows inserted by transactions that have not ended
PendingRows == {call[q].ins : q \in {x \in Procs : call[x].ins # NoRow}}

\* the table holds at most MaxRows rows
RoomForRow == Cardinality(api_refresh_tokens \cup PendingRows) < MaxRows

\* bigint generated always as identity: an id no other row has
FreshTokenID ==
    CHOOSE i \in 1..MaxRows :
        /\ \A r \in api_refresh_tokens \cup PendingRows : r.id # i
        /\ \A j \in 1..(i - 1) :
              \E r \in api_refresh_tokens \cup PendingRows : r.id = j

\* randomToken(32) for a refresh token: the value is new (tokens being
\* interchangeable, the least unused one stands for every new value) or it
\* repeats the token of a row, which the unique index on token_hash rejects
UsedRaws == {r.token_hash[2] : r \in api_refresh_tokens \cup PendingRows}

randomToken ==
    UsedRaws \cup
    {t \in RawTokens \ UsedRaws : \A x \in RawTokens \ UsedRaws : t <= x}

\* randomToken(20): a family id no row has
FreshFamilyID ==
    CHOOSE f \in 1..MaxRows :
        /\ \A r \in api_refresh_tokens : r.family_id # f
        /\ \A g \in 1..(f - 1) :
              \E r \in api_refresh_tokens : r.family_id = g

Init ==
    /\ clock = 1
    /\ api_refresh_tokens = {}
    /\ pc = [p \in Procs |-> "idle"]
    /\ call = [p \in Procs |-> NoCall]
    /\ resp = NoResp
    /\ user_sessions = {}
    /\ sessionSeq = 1
    /\ wpc = [p \in Procs |-> "idle"]
    /\ wcall = [p \in Procs |-> NoWCall]
    /\ wresp = NoWResp
    /\ flows = {}
    /\ flowSeq = 1
    /\ ocall = [p \in Procs |-> NoOCall]
    /\ oresp = NoOResp
    /\ users = {}
    /\ user_identities = {}
    /\ ucall = [p \in Procs |-> NoUCall]
    /\ uresp = NoUResp
    /\ buckets = [k \in Keys |-> ZeroBucket]
    /\ lcall = [p \in Procs |-> NoLCall]
    /\ lresp = NoLResp

Tick ==
    /\ clock < MaxTime
    /\ clock' = clock + 1
    /\ resp' = NoResp
    /\ wresp' = NoWResp
    /\ oresp' = NoOResp
    /\ uresp' = NoUResp
    /\ lresp' = NoLResp
    /\ UNCHANGED <<tokenVars, webVars, flowVars, userVars, limiterVars>>

\* the handler of goroutine p answers; its locals are gone
Respond(p, r) ==
    /\ resp' = r
    /\ call' = [call EXCEPT ![p] = NoCall]
    /\ pc' = [pc EXCEPT ![p] = "idle"]

\* ------------------------------------------------------ issueAPITokenPair
\* One fresh family id, one row, inserted by a single autocommit statement;
\* apiLogin answers 500 when it fails.
IssueAPITokenPair(p, u, raw) ==
    /\ Free(p)
    /\ RoomForRow
    /\ ~PendingInsertByOther(p, hashToken(raw))
    /\ \E dbOK \in BOOLEAN :
         LET h == hashToken(raw)
         IN  IF dbOK /\ RowsByHash(api_refresh_tokens, h) = {}
             THEN /\ api_refresh_tokens' = api_refresh_tokens \cup
                        {NewRow(FreshTokenID, u, FreshFamilyID, h,
                                clock + apiRefreshTokenTTL)}
                  /\ Respond(p, [NoResp EXCEPT !.op = "issue",
                                   !.status = 200, !.refresh_token = raw,
                                   !.access_token =
                                      issueAPIAccessToken(u, FreshFamilyID,
                                                          clock).token,
                                   !.cookie = "set"])
             ELSE /\ UNCHANGED api_refresh_tokens
                  /\ Respond(p, [NoResp EXCEPT !.op = "issue",
                                   !.status = 500,
                                   !.message = "failed to issue tokens"])
    /\ UNCHANGED <<clock, webVars, wresp, otherVars>>

\* every store result that is not an error is answered with 200
RefreshResponse_IgnoreAuthorized(raw, r, newRaw, now) ==
    IF r.err
    THEN [NoResp EXCEPT !.op = "refresh", !.raw = raw, !.status = 401,
                        !.message = "invalid refresh token", !.result = r]
    ELSE [NoResp EXCEPT !.op = "refresh", !.raw = raw, !.status = 200,
                        !.access_token =
                           issueAPIAccessToken(r.UserID, r.FamilyID,
                                               now).token,
                        !.refresh_token = newRaw, !.cookie = "set",
                        !.result = r]

\* a handler that tells the caller that the family was revoked
RefreshResponse_TellsReuse(raw, r, newRaw, now) ==
    IF r.err \/ ~r.Authorized
    THEN [NoResp EXCEPT !.op = "refresh", !.raw = raw, !.status = 401,
                        !.message = IF r.ReuseDetected
                                    THEN "refresh token reuse detected"
                                    ELSE "invalid refresh token",
                        !.result = r]
    ELSE [NoResp EXCEPT !.op = "refresh", !.raw = raw, !.status = 200,
                        !.access_token =
                           issueAPIAccessToken(r.UserID, r.FamilyID,
                                               now).token,
                        !.refresh_token = newRaw, !.cookie = "set",
                        !.result = r]

\* ---------------------------------------------- store result -> response
\* rotateAPIRefreshToken lines 56-78 and apiRefresh lines 128-134 for a
\* store call that returned r: any error and any unauthorized result is a
\* 401 "invalid refresh token", a rotation answers 200 with the new raw
\* token and the access token issued at now and sets the cookie.
RefreshResponse(raw, r, newRaw, now) ==
    IF r.err \/ ~r.Authorized
    THEN [NoResp EXCEPT !.op = "refresh", !.raw = raw, !.status = 401,
                        !.message = "invalid refresh token", !.result = r]
    ELSE [NoResp EXCEPT !.op = "refresh", !.raw = raw, !.status = 200,
                        !.access_token =
                           issueAPIAccessToken(r.UserID, r.FamilyID,
                                               now).token,
                        !.refresh_token = newRaw, !.cookie = "set",
                        !.result = r]

StoreError == [NoResult EXCEPT !.err = TRUE]

\* apiRefresh reads time.Now() and calls rotateAPIRefreshToken with it:
\* the request is under way, its select not yet run
RotateBegin(p, raw) ==
    /\ Free(p)
    /\ call' = [call EXCEPT ![p] = [NoCall EXCEPT !.raw = raw,
                                                  !.now = clock]]
    /\ pc' = [pc EXCEPT ![p] = "rot_begin"]
    /\ resp' = NoResp
    /\ UNCHANGED <<clock, api_refresh_tokens, webVars, wresp, otherVars>>

\* apiRefresh reads time.Now() and calls rotateAPIRefreshToken; the store
\* begins its transaction and runs
\*   select ... where token_hash = $1 for update
\* which waits while another transaction holds the row.  The request
\* starts here, or it is under way with the time it has read.
RotateSelect(p, raw) ==
    /\ Free(p) \/ (pc[p] = "rot_begin" /\ call[p].raw = raw)
    /\ LET rows == RowsByHash(api_refresh_tokens, hashToken(raw))
           now == IF Free(p) THEN clock ELSE call[p].now
       IN \/ \* Begin or the query fails
             Respond(p, RefreshResponse(raw, StoreError, NULL, now))
          \/ \* pgx.ErrNoRows: Authorized false, nothing else
             /\ rows = {}
             /\ Respond(p, RefreshResponse(raw, NoResult, NULL, now))
          \/ \E cur \in rows :
                /\ ~LockedByOther(p, cur.id)
                /\ call' = [call EXCEPT ![p] =
                              [NoCall EXCEPT !.raw = raw, !.now = now,
                                             !.current = cur,
                                             !.locks = ForUpdate(cur)]]
                /\ pc' = [pc EXCEPT ![p] =
                            IF IsReuse(cur, now)
                            THEN "rot_reuse" ELSE "rot_insert"]
                /\ resp' = NoResp
    /\ UNCHANGED <<clock, api_refresh_tokens, webVars, wresp, otherVars>>

\* reuse branch: _, _ = tx.Exec(update ... where family_id = $1)
\* The error is dropped; a failed statement leaves the transaction aborted.
RotateReuseUpdate(p) ==
    /\ pc[p] = "rot_reuse"
    /\ LET fam == RowsByFamily(api_refresh_tokens, call[p].current.family_id)
       IN \/ /\ \A r \in fam : ~LockedByOther(p, r.id)
             /\ call' = [call EXCEPT
                           ![p].revoked = {r.id : r \in fam},
                           ![p].locks = @ \cup {r.id : r \in fam}]
          \/ call' = [call EXCEPT ![p].aborted = TRUE]
    /\ pc' = [pc EXCEPT ![p] = "rot_reuse_commit"]
    /\ resp' = NoResp
    /\ UNCHANGED <<clock, api_refresh_tokens, webVars, wresp, otherVars>>

\* reuse branch: tx.Commit, then the ReuseDetected result.  The commit of
\* an aborted transaction is a rollback and returns an error.
RotateReuseCommit(p) ==
    /\ pc[p] = "rot_reuse_commit"
    /\ \/ /\ ~call[p].aborted
          /\ api_refresh_tokens' =
               {IF r.id \in call[p].revoked
                   THEN [r EXCEPT !.revoked_at =
                                     coalesce(r.revoked_at, call[p].now)]
                   ELSE r : r \in api_refresh_tokens}
          /\ call' = [call EXCEPT ![p].locks = {}, ![p].revoked = {},
                        ![p].result =
                           [err |-> FALSE,
                            UserID |-> call[p].current.user_id,
                            FamilyID |-> call[p].current.family_id,
                            ReuseDetected |-> TRUE, Authorized |-> FALSE]]
          /\ pc' = [pc EXCEPT ![p] = "rot_followup"]
          /\ resp' = NoResp
       \/ /\ UNCHANGED api_refresh_tokens
          /\ Respond(p, RefreshResponse(call[p].raw, StoreError, NULL,
                                      call[p].now))
    /\ UNCHANGED <<clock, webVars, wresp, otherVars>>

\* rotateAPIRefreshToken lines 59-63: on a reuse result with a family id the
\* handler runs RevokeAPIRefreshTokenFamily once more (error dropped), then
\* apiRefresh answers 401.
RotateFollowup(p) ==
    /\ pc[p] = "rot_followup"
    /\ LET r == call[p].result
       IN /\ IF r.ReuseDetected /\ r.FamilyID # NoFamily
             THEN \/ /\ \A x \in RowsByFamily(api_refresh_tokens, r.FamilyID) :
                           ~LockedByOther(p, x.id)
                     /\ api_refresh_tokens' =
                          RevokeFamilyRows(api_refresh_tokens, r.FamilyID,
                                           call[p].now)
                  \/ UNCHANGED api_refresh_tokens
             ELSE UNCHANGED api_refresh_tokens
          /\ Respond(p, RefreshResponse(call[p].raw, r, NULL, call[p].now))
    /\ UNCHANGED <<clock, webVars, wresp, otherVars>>

\* insert into api_refresh_tokens (...) values (...) returning id
\* newRaw is the randomToken(32) of rotateAPIRefreshToken line 48.  The only
\* caller leaves newToken.UserID = 0 and newToken.FamilyID = "", so the row
\* takes current.UserID and current.FamilyID.
RotateInsert(p, newRaw) ==
    /\ pc[p] = "rot_insert"
    /\ LET h == hashToken(newRaw)
       IN \/ /\ RoomForRow
             /\ ~PendingInsertByOther(p, h)
             /\ RowsByHash(api_refresh_tokens, h) = {}
             /\ call' = [call EXCEPT ![p].ins =
                           NewRow(FreshTokenID, call[p].current.user_id,
                                  call[p].current.family_id, h,
                                  call[p].now + apiRefreshTokenTTL)]
             /\ pc' = [pc EXCEPT ![p] = "rot_mark"]
             /\ resp' = NoResp
          \/ \* unique violation or any other failure: deferred rollback
             /\ Respond(p, RefreshResponse(call[p].raw, StoreError, NULL,
                                      call[p].now))
    /\ UNCHANGED <<clock, api_refresh_tokens, webVars, wresp, otherVars>>

\* update ... set last_used_at, revoked_at, replaced_by_token_id where id
RotateMark(p) ==
    /\ pc[p] = "rot_mark"
    /\ \/ /\ call' = [call EXCEPT ![p].mark = TRUE]
          /\ pc' = [pc EXCEPT ![p] = "rot_commit"]
          /\ resp' = NoResp
       \/ Respond(p, RefreshResponse(call[p].raw, StoreError, NULL,
                                      call[p].now))
    /\ UNCHANGED <<clock, api_refresh_tokens, webVars, wresp, otherVars>>

\* tx.Commit of a rotation: both writes become visible together; then
\* rotateAPIRefreshToken issues the access token and apiRefresh answers 200
RotateCommit(p) ==
    /\ pc[p] = "rot_commit"
    /\ \/ /\ api_refresh_tokens' =
               MarkRotated(api_refresh_tokens, call[p].current.id,
                           call[p].now, call[p].ins.id) \cup {call[p].ins}
          /\ Respond(p, RefreshResponse(call[p].raw,
                      [err |-> FALSE,
                       UserID |-> call[p].current.user_id,
                       FamilyID |-> call[p].current.family_id,
                       ReuseDetected |-> FALSE, Authorized |-> TRUE],
                      call[p].ins.token_hash[2], call[p].now))
       \/ /\ UNCHANGED api_refresh_tokens
          /\ Respond(p, RefreshResponse(call[p].raw, StoreError, NULL,
                                      call[p].now))
    /\ UNCHANGED <<clock, webVars, wresp, otherVars>>

\* the token of the request and the status of an early answer (NULL: none):
\* the refresh cookie if it has a value, else the refresh_token of the
\* body; 413 for a body that is too large, 400 for one that is no JSON
refreshTokenOfRequest(cookie, body) ==
    IF cookie # NULL
    THEN [token |-> cookie, status |-> NULL, message |-> ""]
    ELSE CASE body.kind = "json" ->
                 [token |-> body.refresh_token, status |-> NULL,
                  message |-> ""]
           [] body.kind = "too_large" ->
                 [token |-> NULL, status |-> 413,
                  message |-> "request body too large"]
           [] body.kind = "invalid" ->
                 [token |-> NULL, status |-> 400,
                  message |-> "invalid json"]
           [] OTHER -> [token |-> NULL, status |-> NULL, message |-> ""]

\* apiLogout: the token of the request, RevokeAPIRefreshTokenByHash (its
\* error is dropped: result.err records it), clear cookie, 204
APILogout(p, cookie, body) ==
    /\ Free(p)
    /\ LET req == refreshTokenOfRequest(cookie, body)
           raw == req.token
           r == [NoResp EXCEPT !.op = "logout", !.raw = raw,
                               !.status = 204, !.cookie = "cleared"]
       IN  IF req.status # NULL
           THEN /\ UNCHANGED api_refresh_tokens
                /\ Respond(p, [NoResp EXCEPT !.op = "logout",
                                             !.status = req.status,
                                             !.message = req.message])
           ELSE IF raw # NULL
           THEN \/ /\ \A x \in RowsByHash(api_refresh_tokens,
                                           hashToken(raw)) :
                         ~LockedByOther(p, x.id)
                   /\ api_refresh_tokens' =
                        RevokeHashRows(api_refresh_tokens, hashToken(raw),
                                       clock)
                   /\ Respond(p, r)
                \/ /\ UNCHANGED api_refresh_tokens
                   /\ Respond(p, [r EXCEPT !.result = StoreError])
           ELSE /\ UNCHANGED api_refresh_tokens
                /\ Respond(p, r)
    /\ UNCHANGED <<clock, webVars, wresp, otherVars>>

\* UserAuthStore.RevokeAPIRefreshTokenFamily called on its own
RevokeAPIRefreshTokenFamily(p, f) ==
    /\ Free(p)
    /\ \E dbOK \in BOOLEAN :
         /\ IF dbOK
            THEN /\ \A x \in RowsByFamily(api_refresh_tokens, f) :
                       ~LockedByOther(p, x.id)
                 /\ api_refresh_tokens' =
                      RevokeFamilyRows(api_refresh_tokens, f, clock)
            ELSE UNCHANGED api_refresh_tokens
         /\ Respond(p, [NoResp EXCEPT !.op = "revokeFamily", !.family = f,
                          !.result = [NoResult EXCEPT !.err = ~dbOK]])
    /\ UNCHANGED <<clock, webVars, wresp, otherVars>>

\* requireAPIAuth: 401 "unauthorized" when the bearer token does not
\* parse, else the claims go into the request context and the downstream
\* handler is called
RequireAPIAuth(header) ==
    /\ LET parsed == parseAPIAccessToken(bearerTokenFromRequest(header),
                                         clock)
           r == [NoResp EXCEPT !.op = "requireAPIAuth", !.header = header,
                               !.now = clock]
       IN  resp' = IF parsed.err
                   THEN [r EXCEPT !.status = 401,
                                  !.message = "unauthorized"]
                   ELSE [r EXCEPT !.claims = parsed.claims,
                                  !.next = TRUE]
    /\ UNCHANGED <<clock, tokenVars, webVars, wresp, otherVars>>

(***************************************************************************)
(* Web sessions: createSession, loadSession, logout                        *)
(***************************************************************************)
\* goroutines are interchangeable: a new request is served by the first
\* one that is free
WebFree(p) == wpc[p] = "idle" /\ \A q \in Procs : q < p => wpc[q] # "idle"

\* the web handler of goroutine p is done
WebRespond(p, r) ==
    /\ wresp' = r
    /\ wcall' = [wcall EXCEPT ![p] = NoWCall]
    /\ wpc' = [wpc EXCEPT ![p] = "idle"]

\* request paths, as their segments
Paths ==
    {<<"account">>, <<"healthz">>, <<"api", "health">>,
     <<"static", "app.js">>, <<"api", "v1", "me">>}

\* the test with the two exact paths only
skipSessionLoad_ExactOnly(path) ==
    path = <<"healthz">> \/ path = <<"api", "health">>

\* path == "/healthz" || path == "/api/health"
\*   || HasPrefix(path, "/static/") || HasPrefix(path, "/api/")
skipSessionLoad(path) ==
    \/ path = <<"healthz">>
    \/ path = <<"api", "health">>
    \/ (Len(path) >= 2 /\ path[1] \in {"static", "api"})

\* the lookup without its where clause
FindSessionAndUserByTokenHash_AnyRow(S, h) == S

\* select ... from user_sessions s join users u on u.id = s.user_id
\*   where s.token_hash = $1
FindSessionAndUserByTokenHash(S, h) == {x \in S : x.token_hash = h}

\* the validity test with an inclusive expiry
SessionInvalid_AtExpiry(sess, now) ==
    sess.revoked_at # NULL \/ now >= sess.expires_at

\* the validity test without the revocation check
SessionInvalid_NoRevoked(sess, now) == now > sess.expires_at

\* the validity test without the expiry check
SessionInvalid_NoExpiry(sess, now) == sess.revoked_at # NULL

\* sess.RevokedAt != nil || now.After(sess.ExpiresAt)
SessionInvalid(sess, now) ==
    sess.revoked_at # NULL \/ now > sess.expires_at

\* a touch that also moves the expiry on
TouchSession_Sliding(S, id, at) ==
    {IF x.id = id
        THEN [x EXCEPT !.last_seen_at = at, !.expires_at = at + sessionTTL]
        ELSE x : x \in S}

\* update user_sessions set last_seen_at = $2 where id = $1
TouchSession(S, id, at) ==
    {IF x.id = id THEN [x EXCEPT !.last_seen_at = at] ELSE x : x \in S}

\* the delete that removes nothing
DeleteSessionByTokenHash_Noop(S, h) == S

\* the delete without its where clause
DeleteSessionByTokenHash_AllRows(S, h) == {}

\* delete from user_sessions where token_hash = $1
DeleteSessionByTokenHash(S, h) == {x \in S : x.token_hash # h}

\* randomToken(32) for a session: a value never produced before (the next
\* of the sequence stands for it) or the token of a stored session
sessionRandomToken == {sessionSeq} \cup {x.token_hash[2] : x \in user_sessions}

\* createSession: the raw token goes to the cookie, its hash to the row;
\* expires_at = now + sessionTTL, last_seen_at = now
CreateSession(p, u, raw) ==
    /\ WebFree(p)
    /\ sessionSeq <= MaxSessions
    /\ \E dbOK \in BOOLEAN :
         LET h == hashToken(raw)
         IN  IF dbOK /\ \A x \in user_sessions : x.token_hash # h
             THEN /\ user_sessions' = user_sessions \cup
                        {NewSession(sessionSeq, u, h, clock + sessionTTL,
                                    clock)}
                  /\ sessionSeq' = sessionSeq + 1
                  /\ WebRespond(p, [NoWResp EXCEPT !.op = "createSession",
                                      !.token = raw, !.now = clock,
                                      !.cookie = "set"])
             ELSE /\ UNCHANGED <<user_sessions, sessionSeq>>
                  /\ WebRespond(p, [NoWResp EXCEPT !.op = "createSession",
                                      !.now = clock, !.err = TRUE])
    /\ resp' = NoResp
    /\ UNCHANGED <<clock, otherVars, tokenVars>>

\* loadSession up to FindSessionAndUserByTokenHash.  A skipped path and a
\* request without cookie go straight to the downstream handler; a failed
\* lookup (no row, or a store error) clears the cookie and goes on as
\* anonymous; otherwise the row read is kept for the check.
LoadSessionFind(p, path, token) ==
    /\ WebFree(p)
    /\ LET skipped == [NoWResp EXCEPT !.op = "loadSession", !.path = path,
                                      !.sent = token, !.next = TRUE]
           req == [skipped EXCEPT !.token = token]
           found == FindSessionAndUserByTokenHash(user_sessions,
                                                  hashToken(token))
       IN  IF skipSessionLoad(path)
           THEN \* returns before the cookie is read
                WebRespond(p, skipped)
           ELSE IF token = NULL
           THEN WebRespond(p, req)
           ELSE \/ \* the query fails
                   WebRespond(p, [req EXCEPT !.lookupErr = TRUE,
                                             !.cookie = "cleared"])
                \/ \* user.ErrNotFound
                   /\ found = {}
                   /\ WebRespond(p, [req EXCEPT !.cookie = "cleared"])
                \/ \E sess \in found :
                      /\ wcall' = [wcall EXCEPT ![p] =
                                     [path |-> path, token |-> token,
                                      sess |-> sess]]
                      /\ wpc' = [wpc EXCEPT ![p] = "ls_check"]
                      /\ wresp' = NoWResp
    /\ resp' = NoResp
    /\ UNCHANGED <<clock, otherVars, tokenVars, user_sessions, sessionSeq>>

\* a loadSession for which a failed touch ends the session of the request
LoadSessionCheck_TouchFatal(p) ==
    /\ wpc[p] = "ls_check"
    /\ LET sess == wcall[p].sess
           req == [NoWResp EXCEPT !.op = "loadSession",
                      !.path = wcall[p].path, !.sent = wcall[p].token,
                      !.token = wcall[p].token,
                      !.sess = sess, !.now = clock, !.next = TRUE]
       IN  IF SessionInvalid(sess, clock)
           THEN /\ WebRespond(p, [req EXCEPT !.cookie = "cleared"])
                /\ UNCHANGED user_sessions
           ELSE IF clock - sess.last_seen_at >= touchAfter
           THEN \/ /\ user_sessions' =
                        TouchSession(user_sessions, sess.id, clock)
                   /\ WebRespond(p, [req EXCEPT
                                       !.currentUser = sess.user_id])
                \/ /\ UNCHANGED user_sessions
                   /\ WebRespond(p, [req EXCEPT !.cookie = "cleared"])
           ELSE /\ UNCHANGED user_sessions
                /\ WebRespond(p, [req EXCEPT !.currentUser = sess.user_id])
    /\ resp' = NoResp
    /\ UNCHANGED <<clock, otherVars, tokenVars, sessionSeq>>

\* loadSession from time.Now() on: a revoked or expired session clears the
\* cookie and goes on as anonymous; a valid one is touched when it has been
\* idle for touchAfter (the error of the touch is dropped) and its user is
\* put in the request context.
LoadSessionCheck(p) ==
    /\ wpc[p] = "ls_check"
    /\ LET sess == wcall[p].sess
           req == [NoWResp EXCEPT !.op = "loadSession",
                      !.path = wcall[p].path, !.sent = wcall[p].token,
                      !.token = wcall[p].token,
                      !.sess = sess, !.now = clock, !.next = TRUE]
       IN  IF SessionInvalid(sess, clock)
           THEN /\ WebRespond(p, [req EXCEPT !.cookie = "cleared"])
                /\ UNCHANGED user_sessions
           ELSE /\ IF clock - sess.last_seen_at >= touchAfter
                   THEN \/ user_sessions' =
                              TouchSession(user_sessions, sess.id, clock)
                        \/ UNCHANGED user_sessions
                   ELSE UNCHANGED user_sessions
                /\ WebRespond(p, [req EXCEPT !.currentUser = sess.user_id])
    /\ resp' = NoResp
    /\ UNCHANGED <<clock, otherVars, tokenVars, sessionSeq>>

\* logout: delete the session of the cookie's token, clear the cookie,
\* redirect to /auth/login with 303.  The error of the delete is dropped:
\* when the statement fails the row stays and the answer is the same.
Logout(p, token) ==
    /\ WebFree(p)
    /\ LET r == [NoWResp EXCEPT !.op = "logout", !.token = token,
                                !.cookie = "cleared", !.status = 303,
                                !.redirect = "/auth/login"]
       IN  IF token # NULL
           THEN \/ /\ user_sessions' =
                        DeleteSessionByTokenHash(user_sessions,
                                                 hashToken(token))
                   /\ WebRespond(p, r)
                \/ /\ UNCHANGED user_sessions
                   /\ WebRespond(p, [r EXCEPT !.dropped = TRUE])
           ELSE /\ UNCHANGED user_sessions
                /\ WebRespond(p, r)
    /\ resp' = NoResp
    /\ UNCHANGED <<clock, otherVars, tokenVars, sessionSeq>>

\* update user_sessions set revoked_at = now() where id = $1: the
\* revocation of a session row from outside the handlers
RevokeSessionRow(id) ==
    /\ \E x \in user_sessions : x.id = id /\ x.revoked_at = NULL
    /\ user_sessions' =
          {IF x.id = id THEN [x EXCEPT !.revoked_at = clock] ELSE x :
              x \in user_sessions}
    /\ resp' = NoResp
    /\ wresp' = NoWResp
    /\ UNCHANGED <<clock, otherVars, tokenVars, sessionSeq, wpc, wcall>>

\* requests of both goroutines against the rotation protocol
Next ==
    \/ Tick
    \/ \E p \in Procs, u \in Users, raw \in randomToken :
          IssueAPITokenPair(p, u, raw)
    \/ \E p \in Procs, raw \in RawTokens : RotateSelect(p, raw)
    \/ \E p \in Procs : RotateReuseUpdate(p)
    \/ \E p \in Procs : RotateReuseCommit(p)
    \/ \E p \in Procs : RotateFollowup(p)
    \/ \E p \in Procs, newRaw \in randomToken : RotateInsert(p, newRaw)
    \/ \E p \in Procs : RotateMark(p)
    \/ \E p \in Procs : RotateCommit(p)

\* refreshes of both goroutines that read their time.Now() and then wait
\* for their select, with the tokens of one user
NextRace ==
    \/ Tick
    \/ \E p \in Procs, raw \in randomToken :
          IssueAPITokenPair(p, 1, raw)
    \/ \E p \in Procs, raw \in RawTokens : RotateBegin(p, raw)
    \/ \E p \in Procs, raw \in RawTokens :
          pc[p] = "rot_begin" /\ RotateSelect(p, raw)
    \/ \E p \in Procs : RotateReuseUpdate(p)
    \/ \E p \in Procs : RotateReuseCommit(p)
    \/ \E p \in Procs : RotateFollowup(p)
    \/ \E p \in Procs, newRaw \in randomToken : RotateInsert(p, newRaw)
    \/ \E p \in Procs : RotateMark(p)
    \/ \E p \in Procs : RotateCommit(p)

\* requests with an Authorization header against requireAPIAuth
NextAccess ==
    \/ Tick
    \/ \E header \in AuthorizationHeaders : RequireAPIAuth(header)

\* every operation of the store on api_refresh_tokens, one call at a time
NextStore ==
    \/ Tick
    \/ \E u \in Users, raw \in randomToken : IssueAPITokenPair(1, u, raw)
    \/ \E raw \in RawTokens : RotateSelect(1, raw)
    \/ RotateReuseUpdate(1)
    \/ RotateReuseCommit(1)
    \/ RotateFollowup(1)
    \/ \E newRaw \in randomToken : RotateInsert(1, newRaw)
    \/ RotateMark(1)
    \/ RotateCommit(1)
    \/ \* the request bodies of apiLogout: none (io.EOF), bytes that are
       \* no JSON, more bytes than defaultRequestBodyLimitBytes, a JSON
       \* object with or without refresh_token; a request with the
       \* refresh cookie has no body or one that names another token
       \E cookie \in RawTokens \cup {NULL} :
          \E body \in {[kind |-> "eof", refresh_token |-> NULL],
                        [kind |-> "invalid", refresh_token |-> NULL],
                        [kind |-> "too_large", refresh_token |-> NULL]}
                       \cup {[kind |-> "json", refresh_token |-> t] :
                                t \in RawTokens \cup {NULL}} :
             /\ cookie # NULL =>
                   \/ body.kind = "eof"
                   \/ /\ body.kind = "json"
                      /\ body.refresh_token = (cookie % NumRawTokens) + 1
             /\ APILogout(1, cookie, body)
    \/ \E f \in 1..MaxRows : RevokeAPIRefreshTokenFamily(1, f)

\* the store operations, and requests that present the access token
\* issued with the refresh token of a stored row: issueAPITokenPair and
\* rotateAPIRefreshToken give both the same now
NextAccessStore ==
    \/ NextStore
    \/ \E r \in api_refresh_tokens :
          RequireAPIAuth(
             [scheme |-> "Bearer",
              token |-> issueAPIAccessToken(
                           r.user_id, r.family_id,
                           r.expires_at - apiRefreshTokenTTL).token])

\* the outcome of a guard: whether it calls the downstream handler and,
\* when it does not, the status and headers it writes
GuardPass == [next |-> TRUE, status |-> NULL, redirect |-> "",
              hxRedirect |-> ""]

\* a guard that lets every request through
requireAuth_PassAll(currentUser, htmx) == GuardPass

\* requireAuth: without current user an htmx request gets 401 with
\* HX-Redirect: /auth/login, any other request a 303 to /auth/login
requireAuth(currentUser, htmx) ==
    IF currentUser = NULL
    THEN IF htmx
         THEN [GuardPass EXCEPT !.next = FALSE, !.status = 401,
                                !.hxRedirect = "/auth/login"]
         ELSE [GuardPass EXCEPT !.next = FALSE, !.status = 303,
                                !.redirect = "/auth/login"]
    ELSE GuardPass

\* requireGuest: with a current user a 303 to /account
requireGuest(currentUser, htmx) ==
    IF currentUser # NULL
    THEN [GuardPass EXCEPT !.next = FALSE, !.status = 303,
                           !.redirect = "/account"]
    ELSE GuardPass

\* the guard of a route runs as the downstream handler of loadSession, on
\* the request context loadSession has built; no guarded route has a path
\* that loadSession skips
Guard(name, htmx) ==
    /\ wresp.op = "loadSession"
    /\ wresp.next
    /\ ~skipSessionLoad(wresp.path)
    /\ LET g == IF name = "requireAuth"
                THEN requireAuth(wresp.currentUser, htmx)
                ELSE requireGuest(wresp.currentUser, htmx)
       IN  wresp' = [wresp EXCEPT !.op = name, !.htmx = htmx,
                        !.cookie = "none",
                        !.next = g.next, !.status = g.status,
                        !.redirect = g.redirect,
                        !.hxRedirect = g.hxRedirect]
    /\ resp' = NoResp
    /\ UNCHANGED <<clock, otherVars, tokenVars, webVars>>

(***************************************************************************)
(* OAuth flow store: create, consume                                       *)
(***************************************************************************)
\* cleanupLocked: delete every record with now.After(record.ExpiresAt)
cleanupLocked(F, now) == {r \in F : ~(now > r.ExpiresAt)}

\* s.flows[state]
FlowsAt(F, state) == {r \in F : r.State = state}

\* the lookup that leaves the record in the map
deleteFlow_Keep(F, state) == F

\* the delete of every record but the one looked up
deleteFlow_Others(F, state) == {r \in F : r.State = state}

\* delete(s.flows, state)
deleteFlow(F, state) == {r \in F : r.State # state}

\* the validation that forgets the provider
FlowRejected_ExpiryOnly(record, provider, now) == now > record.ExpiresAt

\* the validation that accepts every record it finds
FlowRejected_Never(record, provider, now) == FALSE

\* record.Provider != provider || now.After(record.ExpiresAt)
FlowRejected(record, provider, now) ==
    record.Provider # provider \/ now > record.ExpiresAt

\* the handler evaluates time.Now() as argument of create / consume; the
\* call then waits for s.mu, as do the creates that have taken their
\* time.Now() before
FlowCall(p, op, state, provider, redirectTo) ==
    /\ ocall[p] = NoOCall
    /\ op = "create" =>
          /\ state = NULL
          /\ flowSeq + Cardinality({q \in Procs : ocall[q].op = "create"})
                <= MaxFlows
    /\ op = "consume" => state # NULL /\ redirectTo = ""
    /\ ocall' = [ocall EXCEPT ![p] =
                    [op |-> op, state |-> state, provider |-> provider,
                     redirectTo |-> redirectTo, now |-> clock]]
    /\ oresp' = NoOResp
    /\ UNCHANGED <<clock, limiterVars, lresp, userVars, uresp, authVars, flows, flowSeq>>

\* create under s.mu: cleanup, then a record under a state that
\* randomToken(24) has not given before, expiring at now + ttl; when
\* randomToken fails the cleanup has been done and nothing is stored
FlowCreate(p) ==
    /\ ocall[p].op = "create"
    /\ LET c == ocall[p]
           F == cleanupLocked(flows, c.now)
           record == [State |-> flowSeq, Provider |-> c.provider,
                      CodeVerifier |-> flowSeq,
                      RedirectTo |-> c.redirectTo,
                      ExpiresAt |-> c.now + oauthFlowTTL]
           r == [NoOResp EXCEPT !.op = "create", !.provider = c.provider,
                                !.now = c.now]
       IN  \/ /\ flows' = deleteFlow(F, record.State) \cup {record}
              /\ flowSeq' = flowSeq + 1
              /\ oresp' = [r EXCEPT !.state = record.State,
                                    !.record = record]
           \/ /\ flows' = F
              /\ UNCHANGED flowSeq
              /\ oresp' = [r EXCEPT !.err = "rand"]
    /\ ocall' = [ocall EXCEPT ![p] = NoOCall]
    /\ UNCHANGED <<clock, limiterVars, lresp, userVars, uresp, authVars>>

\* consume under s.mu: cleanup, lookup, delete, then the validation
FlowConsume(p) ==
    /\ ocall[p].op = "consume"
    /\ LET c == ocall[p]
           F == cleanupLocked(flows, c.now)
           r == [NoOResp EXCEPT !.op = "consume", !.state = c.state,
                                !.provider = c.provider, !.now = c.now]
       IN  IF FlowsAt(F, c.state) = {}
           THEN /\ flows' = F
                /\ oresp' = [r EXCEPT !.err = "errOAuthFlowNotFound"]
           ELSE \E record \in FlowsAt(F, c.state) :
                   /\ flows' = deleteFlow(F, c.state)
                   /\ oresp' =
                        IF FlowRejected(record, c.provider, c.now)
                        THEN [r EXCEPT !.found = record,
                                       !.err = "errOAuthFlowNotFound"]
                        ELSE [r EXCEPT !.found = record,
                                       !.record = record]
    /\ ocall' = [ocall EXCEPT ![p] = NoOCall]
    /\ UNCHANGED <<clock, limiterVars, lresp, userVars, uresp, authVars, flowSeq>>

(***************************************************************************)
(* Social sign-in: findOrCreateSocialUser, CreateUserWithIdentity          *)
(***************************************************************************)
\* nullif($1, '')
nullif(str) == IF str = "" THEN NullText ELSE str

\* the email as it is compared and stored, with its case kept
storedEmail_KeepCase(email) == TrimSpace(email)

\* strings.TrimSpace(strings.ToLower(email))
storedEmail(email) == TrimSpace(ToLower(email))

\* select ... from user_identities ui join users u on u.id = ui.user_id
\*   where ui.provider = $1 and ui.provider_user_id = $2
FindByIdentity(provider, providerUserID) ==
    {u \in users :
        \E i \in user_identities :
           /\ i.user_id = u.id
           /\ i.provider = TrimSpace(ToLower(provider))
           /\ i.provider_user_id = TrimSpace(providerUserID)}

\* the email lookup that finds no row
usersWithEmail_None(U, email) == {}

\* ... from users where email = $1, and the lookup of the unique index on
\* users.email
usersWithEmail(U, email) == {u \in U : u.email = email}

\* select ... from users where email = $1, not run for a blank email
FindByEmail(email) ==
    IF storedEmail(email) = ""
    THEN {}
    ELSE usersWithEmail(users, storedEmail(email))

\* select ... from users where id = $1
FindByID(id) == {u \in users : u.id = id}

\* an update that stores the profile's name and avatar as they are
UpdateUserRows_Overwrite(U, userID, profile) ==
    {IF u.id = userID
        THEN [u EXCEPT !.display_name = TrimSpace(profile.Name),
                       !.avatar_url = nullif(TrimSpace(profile.AvatarURL))]
        ELSE u : u \in U}

\* update users
\*   set display_name = case when nullif($2, '') is not null then $2
\*                           else display_name end,
\*       avatar_url = case when nullif($3, '') is not null then $3
\*                         else avatar_url end
\*   where id = $1
\* with the trimmed name and avatar of the profile
UpdateUserRows(U, userID, profile) ==
    {IF u.id = userID
        THEN [u EXCEPT !.display_name =
                          IF nullif(TrimSpace(profile.Name)) # NullText
                          THEN TrimSpace(profile.Name) ELSE @,
                       !.avatar_url =
                          IF nullif(TrimSpace(profile.AvatarURL)) # NullText
                          THEN TrimSpace(profile.AvatarURL) ELSE @]
        ELSE u : u \in U}

\* update user_identities set provider_email = nullif($3, '') ...
\*   where user_id = $1 and provider = $2
UpdateUserFromProfile(userID, profile) ==
    {IF i.user_id = userID /\ i.provider = TrimSpace(ToLower(profile.Provider))
        THEN [i EXCEPT !.provider_email =
                          nullif(TrimSpace(ToLower(profile.Email)))]
        ELSE i : i \in user_identities}

\* profile.Validate()
ValidProfile(profile) ==
    TrimSpace(profile.Provider) # "" /\ TrimSpace(profile.ProviderUserID) # ""

\* rows that open transactions of other goroutines have inserted
PendingUsersOfOthers(p) ==
    {ucall[q].ins_user : q \in {x \in Procs \ {p} : ucall[x].ins_user # NoUser}}
PendingIdentitiesOfOthers(p) ==
    {ucall[q].ins_identity :
        q \in {x \in Procs \ {p} : ucall[x].ins_identity # NoIdentity}}

\* bigint generated always as identity: an id no row has, ids being
\* interchangeable the least one
NextID(rows) ==
    CHOOSE i \in 1..(Cardinality(rows) + 1) :
        /\ \A r \in rows : r.id # i
        /\ \A j \in 1..(i - 1) : \E r \in rows : r.id = j

\* goroutines being interchangeable, a sign-in starts on the least one
\* that is in none
UserIdle(p) ==
    /\ ucall[p].pc = "idle"
    /\ \A q \in Procs : q < p => ucall[q].pc # "idle"

\* the sign-in of goroutine p with this profile returns, to the handler
\* that called it if there is one
UserReturnOf(p, profile, u, err) ==
    /\ uresp' = [op |-> "findOrCreateSocialUser",
                 profile |-> profile, user |-> u, err |-> err]
    /\ ucall' = [ucall EXCEPT ![p] =
                    IF ucall[p].caller = ""
                    THEN NoUCall
                    ELSE [NoUCall EXCEPT !.pc = "returned",
                                         !.profile = profile,
                                         !.caller = ucall[p].caller,
                                         !.flow = ucall[p].flow,
                                         !.ret_user = u,
                                         !.ret_err = err]]

\* the sign-in of goroutine p returns
UserReturn(p, u, err) == UserReturnOf(p, ucall[p].profile, u, err)

\* the sign-in moves on
UserGoto(p, c) ==
    /\ uresp' = NoUResp
    /\ ucall' = [ucall EXCEPT ![p] = c]

\* findOrCreateSocialUser up to FindByIdentity: an error other than
\* ErrNotFound is returned; a known identity goes on to the update of the
\* user; an unknown one to the email check, which runs only for a
\* verified email that is not blank
SignInFindByIdentity(p, profile) ==
    /\ \/ UserIdle(p)
       \/ ucall[p].pc = "sign_in" /\ ucall[p].profile = profile
    /\ LET c == [ucall[p] EXCEPT !.profile = profile]
           found == FindByIdentity(profile.Provider, profile.ProviderUserID)
       IN  \/ UserReturnOf(p, profile, NoUser, "store")
           \/ \E u \in found :
                 UserGoto(p, [c EXCEPT !.pc = "update", !.found = u])
           \/ /\ found = {}
              /\ IF profile.EmailVerified /\ TrimSpace(profile.Email) # ""
                 THEN UserGoto(p, [c EXCEPT !.pc = "find_email"])
                 ELSE UserGoto(p, [c EXCEPT !.pc = "create"])
    /\ UNCHANGED <<clock, limiterVars, lresp, authVars, flowVars, oresp, users, user_identities>>

\* UpdateUserFromProfile on the known user: the update of users, then
\* the update of user_identities, each a statement of its own, the second
\* not run when the first fails; the error is dropped
SignInUpdate(p) ==
    /\ ucall[p].pc = "update"
    /\ \/ UNCHANGED <<users, user_identities>>
       \/ /\ users' = UpdateUserRows(users, ucall[p].found.id,
                                     ucall[p].profile)
          /\ \/ user_identities' =
                   UpdateUserFromProfile(ucall[p].found.id, ucall[p].profile)
             \/ UNCHANGED user_identities
    /\ UserGoto(p, [ucall[p] EXCEPT !.pc = "find_id"])
    /\ UNCHANGED <<clock, limiterVars, lresp, authVars, flowVars, oresp>>

\* return h.users.FindByID(ctx, currentUser.ID)
SignInFindByID(p) ==
    /\ ucall[p].pc = "find_id"
    /\ \/ \E u \in FindByID(ucall[p].found.id) : UserReturn(p, u, "")
       \/ /\ FindByID(ucall[p].found.id) = {}
          /\ UserReturn(p, NoUser, "ErrNotFound")
       \/ UserReturn(p, NoUser, "store")
    /\ UNCHANGED <<clock, limiterVars, lresp, authVars, flowVars, oresp, users, user_identities>>

\* FindByEmail of a verified email: a user with it is ErrEmailConflict;
\* ErrNotFound and every other error go on to CreateUserWithIdentity
SignInFindByEmail(p) ==
    /\ ucall[p].pc = "find_email"
    /\ \/ /\ FindByEmail(ucall[p].profile.Email) # {}
          /\ UserReturn(p, NoUser, "ErrEmailConflict")
       \/ /\ FindByEmail(ucall[p].profile.Email) = {}
          /\ UserGoto(p, [ucall[p] EXCEPT !.pc = "create"])
       \/ UserGoto(p, [ucall[p] EXCEPT !.pc = "create"])
    /\ UNCHANGED <<clock, limiterVars, lresp, authVars, flowVars, oresp, users, user_identities>>

\* CreateUserWithIdentity up to the email check in the transaction:
\* Validate, Begin, select id from users where email = $1
CreateCheckEmail(p) ==
    /\ ucall[p].pc = "create"
    /\ LET email == storedEmail(ucall[p].profile.Email)
       IN  IF ~ValidProfile(ucall[p].profile)
           THEN UserReturn(p, NoUser, "invalid")
           ELSE \/ UserReturn(p, NoUser, "store")
                \/ /\ email # ""
                   /\ usersWithEmail(users, email) # {}
                   /\ UserReturn(p, NoUser, "ErrEmailConflict")
                \/ /\ email = "" \/ usersWithEmail(users, email) = {}
                   /\ UserGoto(p, [ucall[p] EXCEPT !.pc = "insert_user"])
    /\ UNCHANGED <<clock, limiterVars, lresp, authVars, flowVars, oresp, users, user_identities>>

\* insert into users (email, ...): waits for an open transaction that has
\* inserted the same email; a unique violation is ErrEmailConflict
CreateInsertUser(p) ==
    /\ ucall[p].pc = "insert_user"
    /\ LET email == nullif(storedEmail(ucall[p].profile.Email))
           name == TrimSpace(ucall[p].profile.Name)
           username == TrimSpace(ucall[p].profile.Username)
           row == [id |-> NextID(users \cup PendingUsersOfOthers(p)),
                   email |-> email,
                   display_name |-> IF name # "" THEN name
                                    ELSE IF username # "" THEN username
                                    ELSE "User",
                   avatar_url |->
                      nullif(TrimSpace(ucall[p].profile.AvatarURL))]
       IN  \/ UserReturn(p, NoUser, "store")
           \/ /\ email # NullText
              /\ usersWithEmail(users, email) # {}
              /\ UserReturn(p, NoUser, "ErrEmailConflict")
           \/ /\ email = NullText \/
                    usersWithEmail(users \cup PendingUsersOfOthers(p),
                                   email) = {}
              /\ Cardinality(users \cup PendingUsersOfOthers(p)) < MaxUserRows
              /\ UserGoto(p, [ucall[p] EXCEPT !.pc = "insert_identity",
                                              !.ins_user = row])
    /\ UNCHANGED <<clock, limiterVars, lresp, authVars, flowVars, oresp, users, user_identities>>

\* a unique index that has the user_id in its key
sameIdentityKey_WithUser(i, row) ==
    /\ i.user_id = row.user_id
    /\ i.provider = row.provider
    /\ i.provider_user_id = row.provider_user_id

\* unique (provider, provider_user_id): the rows that collide
sameIdentityKey(i, row) ==
    /\ i.provider = row.provider
    /\ i.provider_user_id = row.provider_user_id

\* insert into user_identities (...): waits for an open transaction that
\* has inserted the same (provider, provider_user_id); a unique violation
\* is ErrIdentityConflict
CreateInsertIdentity(p) ==
    /\ ucall[p].pc = "insert_identity"
    /\ LET profile == ucall[p].profile
           row == [user_id |-> ucall[p].ins_user.id,
                   provider |-> TrimSpace(ToLower(profile.Provider)),
                   provider_user_id |-> TrimSpace(profile.ProviderUserID),
                   provider_email |-> nullif(storedEmail(profile.Email))]
           same(i) == sameIdentityKey(i, row)
       IN  \/ UserReturn(p, NoUser, "store")
           \/ /\ \E i \in user_identities : same(i)
              /\ UserReturn(p, NoUser, "ErrIdentityConflict")
           \/ /\ \A i \in user_identities \cup PendingIdentitiesOfOthers(p) :
                    ~same(i)
              /\ UserGoto(p, [ucall[p] EXCEPT !.pc = "commit",
                                              !.ins_identity = row])
    /\ UNCHANGED <<clock, limiterVars, lresp, authVars, flowVars, oresp, users, user_identities>>

\* the rows a commit adds to users
CommitUsers(U, c) == U \cup {c.ins_user}

\* a commit that makes the user visible without its identity
CommitIdentities_UserOnly(I, c) == I

\* the rows a commit adds to user_identities
CommitIdentities(I, c) == I \cup {c.ins_identity}

\* tx.Commit: both rows become visible, or neither
CreateCommit(p) ==
    /\ ucall[p].pc = "commit"
    /\ \/ /\ users' = CommitUsers(users, ucall[p])
          /\ user_identities' = CommitIdentities(user_identities, ucall[p])
          /\ UserReturn(p, ucall[p].ins_user, "")
       \/ /\ UNCHANGED <<users, user_identities>>
          /\ UserReturn(p, NoUser, "store")
    /\ UNCHANGED <<clock, limiterVars, lresp, authVars, flowVars, oresp>>

(***************************************************************************)
(* The handlers that sign a user in: apiLogin, oauthCallback               *)
(***************************************************************************)
\* what socialVerifier returns without error: the provider, a user id
\* that is not blank, the email trimmed and in lower case
VerifiedProfiles ==
    {profile \in SocialProfiles :
        /\ TrimSpace(profile.ProviderUserID) # ""
        /\ profile.Email = TrimSpace(ToLower(profile.Email))}

\* h.verifier.ExchangeAndVerify for a provider: an error, or a profile
VerifierOutcomes(provider) ==
    {[err |-> TRUE, profile |-> NoProfile]}
    \cup {[err |-> FALSE, profile |-> profile] :
             profile \in {x \in VerifiedProfiles : x.Provider = provider}}

\* the body of a login request: the three fields, one of them blank, no
\* JSON, nothing, or more than defaultRequestBodyLimitBytes
LoginBodies == {"complete", "missing", "invalid", "eof", "too_large"}

NoAnswer == [status |-> NULL, message |-> ""]

\* a handler that does not look at the error of the verifier
apiLoginEarlyAnswer_IgnoreVerifier(provider, body, verified) ==
    IF TrimSpace(apiAccessTokenSecret) = ""
    THEN [status |-> 503, message |-> "api auth is not configured"]
    ELSE IF provider \notin Providers
    THEN [status |-> 400, message |-> "provider is not configured"]
    ELSE IF body = "too_large"
    THEN [status |-> 413, message |-> "request body too large"]
    ELSE IF body \in {"invalid", "eof"}
    THEN [status |-> 400, message |-> "invalid json"]
    ELSE IF body = "missing"
    THEN [status |-> 400,
          message |-> "code, code_verifier, and redirect_uri are required"]
    ELSE NoAnswer

\* apiLogin up to the sign-in: the answer it writes before it, NoAnswer
\* when it goes on to findOrCreateSocialUser
apiLoginEarlyAnswer(provider, body, verified) ==
    IF TrimSpace(apiAccessTokenSecret) = ""
    THEN [status |-> 503, message |-> "api auth is not configured"]
    ELSE IF provider \notin Providers
    THEN [status |-> 400, message |-> "provider is not configured"]
    ELSE IF body = "too_large"
    THEN [status |-> 413, message |-> "request body too large"]
    ELSE IF body \in {"invalid", "eof"}
    THEN [status |-> 400, message |-> "invalid json"]
    ELSE IF body = "missing"
    THEN [status |-> 400,
          message |-> "code, code_verifier, and redirect_uri are required"]
    ELSE IF verified.err
    THEN [status |-> 401, message |-> "oauth login failed"]
    ELSE NoAnswer

\* apiLogin up to h.findOrCreateSocialUser: configuration, provider,
\* body and verifier; an early answer ends the request
APILoginVerify(p, provider, body, verified) ==
    /\ UserIdle(p)
    /\ LET early == apiLoginEarlyAnswer(provider, body, verified)
       IN  IF early # NoAnswer
           THEN /\ resp' = [NoResp EXCEPT !.op = "login",
                                          !.request =
                                             <<provider, body,
                                               verified.err>>,
                                          !.status = early.status,
                                          !.message = early.message]
                /\ UNCHANGED ucall
           ELSE /\ resp' = NoResp
                /\ ucall' = [ucall EXCEPT ![p] =
                                [NoUCall EXCEPT !.pc = "sign_in",
                                                !.caller = "apiLogin",
                                                !.profile =
                                                   verified.profile]]
    /\ uresp' = NoUResp
    /\ UNCHANGED <<clock, tokenVars, webVars, wresp, flowVars, oresp,
                   users, user_identities, limiterVars, lresp>>

\* apiLogin from the return of findOrCreateSocialUser on: the answer to
\* its error, or issueAPITokenPair at time.Now() with the refresh token
\* raw, the refresh cookie and 200 with the token pair and the user
APILoginAnswer(p, raw) ==
    /\ ucall[p].pc = "returned"
    /\ ucall[p].caller = "apiLogin"
    /\ LET c == ucall[p]
           h == hashToken(raw)
           r == [NoResp EXCEPT !.op = "login"]
           failed ==
              IF c.ret_err = "ErrEmailConflict"
              THEN [status |-> 409,
                    message |->
                       "account email is already used by another provider"]
              ELSE [status |-> 500, message |-> "failed to sign in user"]
       IN  IF c.ret_err # ""
           THEN /\ UNCHANGED api_refresh_tokens
                /\ resp' = [r EXCEPT !.status = failed.status,
                                     !.message = failed.message]
           ELSE \/ /\ RoomForRow
                   /\ RowsByHash(api_refresh_tokens, h) = {}
                   /\ api_refresh_tokens' = api_refresh_tokens \cup
                         {NewRow(FreshTokenID, c.ret_user.id,
                                 FreshFamilyID, h,
                                 clock + apiRefreshTokenTTL)}
                   /\ resp' = [r EXCEPT
                                 !.status = 200,
                                 !.refresh_token = raw,
                                 !.access_token =
                                    issueAPIAccessToken(c.ret_user.id,
                                                        FreshFamilyID,
                                                        clock).token,
                                 !.cookie = "set",
                                 !.user = c.ret_user.id]
                \/ \* randomToken or CreateAPIRefreshToken fails
                   /\ UNCHANGED api_refresh_tokens
                   /\ resp' = [r EXCEPT
                                 !.status = 500,
                                 !.message = "failed to issue tokens"]
    /\ ucall' = [ucall EXCEPT ![p] = NoUCall]
    /\ uresp' = NoUResp
    /\ UNCHANGED <<clock, pc, call, webVars, wresp, flowVars, oresp,
                   users, user_identities, limiterVars, lresp>>

\* ------------------------------------------- startSocialLogin
\* a start that takes every target with a leading slash
startRedirectTo_SlashOnly(next) ==
    LET redirectTo == TrimSpace(next)
    IN  IF redirectTo = "" \/ SubSeq(redirectTo, 1, 1) # "/"
        THEN "/account"
        ELSE redirectTo

\* redirectTo := strings.TrimSpace(r.FormValue("next"))
\* if redirectTo == "" || !strings.HasPrefix(redirectTo, "/")
\*    || strings.HasPrefix(redirectTo, "//") { redirectTo = "/account" }
startRedirectTo(next) ==
    LET redirectTo == TrimSpace(next)
        HasPrefix(str, prefix) ==
           /\ Len(str) >= Len(prefix)
           /\ SubSeq(str, 1, Len(prefix)) = prefix
    IN  IF \/ redirectTo = ""
           \/ ~HasPrefix(redirectTo, "/")
           \/ HasPrefix(redirectTo, "//")
        THEN "/account"
        ELSE redirectTo

\* startSocialLogin up to the call of create, whose time.Now() it takes:
\* a blank provider and one without configuration are redirected to the
\* login page; the response records the request, with its next parameter
StartSocialLogin(p, provider, next) ==
    /\ ocall[p] = NoOCall
    /\ LET name == TrimSpace(ToLower(provider))
           r == [NoWResp EXCEPT !.op = "startSocialLogin",
                                !.path = <<"auth", name, next>>]
       IN  IF name = ""
           THEN /\ wresp' = [r EXCEPT !.status = 303,
                    !.redirect = "/auth/login?error=oauth_failed"]
                /\ UNCHANGED ocall
           ELSE IF name \notin Providers
           THEN /\ wresp' = [r EXCEPT !.status = 303,
                    !.redirect = "/auth/login?error=provider_not_configured"]
                /\ UNCHANGED ocall
           ELSE /\ flowSeq
                      + Cardinality({q \in Procs : ocall[q].op = "create"})
                      <= MaxFlows
                /\ wresp' = r
                /\ ocall' = [ocall EXCEPT ![p] =
                                [op |-> "create", state |-> NULL,
                                 provider |-> name,
                                 redirectTo |-> startRedirectTo(next),
                                 now |-> clock]]
    /\ oresp' = NoOResp
    /\ UNCHANGED <<clock, limiterVars, lresp, userVars, uresp, tokenVars,
                   resp, webVars, flows, flowSeq>>

\* ------------------------------------------------------ oauthCallback
OAuthFailed == "/auth/login?error=oauth_failed"

\* http.Redirect(w, r, url, http.StatusSeeOther) of the callback of a
\* provider
CallbackRedirect(provider, url) ==
    [NoWResp EXCEPT !.op = "oauthCallback",
                    !.path = <<"auth", "callback", provider>>,
                    !.redirect = url, !.status = 303]

\* oauthCallback up to the call of consume, whose time.Now() it takes:
\* early is the redirect for a blank provider, an error of the provider,
\* a blank code or state, "" when the handler goes on
OAuthCallbackStart(p, provider, errParam, code, state) ==
    /\ UserIdle(p)
    /\ ocall[p] = NoOCall
    /\ sessionSeq <= MaxSessions
    /\ LET name == TrimSpace(ToLower(provider))
           early == IF name = ""
                    THEN OAuthFailed
                    ELSE IF TrimSpace(errParam) # ""
                    THEN OAuthFailed
                    ELSE IF TrimSpace(code) = "" \/ state = NULL
                    THEN OAuthFailed
                    ELSE ""
       IN  IF early # ""
           THEN /\ wresp' = CallbackRedirect(name, early)
                /\ UNCHANGED <<ocall, ucall>>
           ELSE /\ wresp' = NoWResp
                /\ ocall' = [ocall EXCEPT ![p] =
                                [op |-> "consume", state |-> state,
                                 provider |-> name, redirectTo |-> "",
                                 now |-> clock]]
                /\ ucall' = [ucall EXCEPT ![p] =
                                [NoUCall EXCEPT !.pc = "consume",
                                                !.caller =
                                                   "oauthCallback"]]
    /\ oresp' = NoOResp
    /\ uresp' = NoUResp
    /\ UNCHANGED <<clock, tokenVars, resp, webVars, flows, flowSeq, users,
                   user_identities, limiterVars, lresp>>

\* consume under s.mu, then oauthProviderConfig and ExchangeAndVerify:
\* the record is deleted whatever follows; url is the redirect for a
\* record consume rejected, a provider without configuration, a failed
\* verification, "" when the handler goes on
OAuthCallbackConsume(p) ==
    /\ ocall[p].op = "consume"
    /\ ucall[p].pc = "consume"
    /\ ucall[p].caller = "oauthCallback"
    /\ LET c == ocall[p]
           F == cleanupLocked(flows, c.now)
           failed == /\ wresp' = CallbackRedirect(c.provider, OAuthFailed)
                     /\ ucall' = [ucall EXCEPT ![p] = NoUCall]
       IN  IF FlowsAt(F, c.state) = {}
           THEN flows' = F /\ failed
           ELSE \E record \in FlowsAt(F, c.state) :
                \E verified \in VerifierOutcomes(c.provider) :
                   LET url ==
                          IF FlowRejected(record, c.provider, c.now)
                          THEN OAuthFailed
                          ELSE IF c.provider \notin Providers
                          THEN "/auth/login?error=provider_not_configured"
                          ELSE IF verified.err
                          THEN OAuthFailed
                          ELSE ""
                   IN  /\ flows' = deleteFlow(F, c.state)
                       /\ IF url # ""
                          THEN /\ wresp' = CallbackRedirect(c.provider,
                                                            url)
                               /\ ucall' = [ucall EXCEPT ![p] = NoUCall]
                          ELSE /\ wresp' = NoWResp
                               /\ ucall' = [ucall EXCEPT ![p] =
                                     [NoUCall EXCEPT
                                        !.pc = "sign_in",
                                        !.caller = "oauthCallback",
                                        !.profile = verified.profile,
                                        !.flow = record]]
    /\ ocall' = [ocall EXCEPT ![p] = NoOCall]
    /\ oresp' = NoOResp
    /\ uresp' = NoUResp
    /\ UNCHANGED <<clock, tokenVars, resp, webVars, flowSeq, users,
                   user_identities, limiterVars, lresp>>

\* oauthCallback from the return of findOrCreateSocialUser on: the
\* redirect for its error, or createSession at time.Now() with the token
\* raw, the session cookie and the redirect to flow.RedirectTo
OAuthCallbackAnswer(p, raw) ==
    /\ ucall[p].pc = "returned"
    /\ ucall[p].caller = "oauthCallback"
    /\ LET c == ucall[p]
           h == hashToken(raw)
           provider == c.profile.Provider
           failed == IF c.ret_err = "ErrEmailConflict"
                     THEN "/auth/login?error=account_conflict"
                     ELSE OAuthFailed
       IN  IF c.ret_err # ""
           THEN /\ UNCHANGED <<user_sessions, sessionSeq>>
                /\ wresp' = CallbackRedirect(provider, failed)
           ELSE \/ /\ sessionSeq <= MaxSessions
                   /\ \A x \in user_sessions : x.token_hash # h
                   /\ user_sessions' = user_sessions \cup
                         {NewSession(sessionSeq, c.ret_user.id, h,
                                     clock + sessionTTL, clock)}
                   /\ sessionSeq' = sessionSeq + 1
                   /\ wresp' = [CallbackRedirect(provider,
                                                 c.flow.RedirectTo)
                                   EXCEPT !.token = raw, !.now = clock,
                                          !.cookie = "set",
                                          !.currentUser = c.ret_user.id]
                \/ \* randomToken or CreateSession fails
                   /\ UNCHANGED <<user_sessions, sessionSeq>>
                   /\ wresp' = [CallbackRedirect(provider, OAuthFailed)
                                   EXCEPT !.err = TRUE]
    /\ ucall' = [ucall EXCEPT ![p] = NoUCall]
    /\ uresp' = NoUResp
    /\ UNCHANGED <<clock, tokenVars, resp, wpc, wcall, flowVars, oresp,
                   users, user_identities, limiterVars, lresp>>

(***************************************************************************)
(* Rate limiting of the auth routes: authRateLimiter                       *)
(***************************************************************************)
\* staleAfter := l.window * 2
staleAfter == window * 2

\* cleanupLocked: every bucket last seen staleAfter or longer before now
\* is deleted
limiterCleanupLocked(B, now) ==
    [k \in DOMAIN B |->
        IF B[k] # ZeroBucket /\ now - B[k].lastSeenAt >= staleAfter
        THEN ZeroBucket
        ELSE B[k]]

\* a limiter that lets one request more through
countReached_Over(count) == count > limit

\* bucket.count >= l.limit
countReached(count) == count >= limit

\* a window that ends one tick late
windowElapsed_Late(now, windowStart) == now - windowStart > window

\* now.Sub(bucket.windowStart) >= l.window
windowElapsed(now, windowStart) == now - windowStart >= window

\* a limiter whose denied requests start the window again
allow_SlidingDenial(B, key, now) ==
    LET C == limiterCleanupLocked(B, now)
        bucket == C[key]
        left == window - (now - bucket.windowStart)
    IN  IF bucket.windowStart = 0 \/ windowElapsed(now, bucket.windowStart)
        THEN [allowed |-> TRUE, retryAfter |-> 0,
              buckets |-> [C EXCEPT ![key] = [windowStart |-> now,
                                              count |-> 1,
                                              lastSeenAt |-> now]]]
        ELSE IF countReached(bucket.count)
        THEN [allowed |-> FALSE,
              retryAfter |-> IF left < 0 THEN 0 ELSE left,
              buckets |-> [C EXCEPT ![key].lastSeenAt = now,
                                    ![key].windowStart = now]]
        ELSE [allowed |-> TRUE, retryAfter |-> 0,
              buckets |-> [C EXCEPT ![key].lastSeenAt = now,
                                    ![key].count = bucket.count + 1]]

\* allow, under the mutex: whether the request is allowed, the time to
\* wait if not, and the buckets afterwards
allow(B, key, now) ==
    LET C == limiterCleanupLocked(B, now)
        bucket == C[key]
        left == window - (now - bucket.windowStart)
    IN  IF bucket.windowStart = 0 \/ windowElapsed(now, bucket.windowStart)
        THEN [allowed |-> TRUE, retryAfter |-> 0,
              buckets |-> [C EXCEPT ![key] = [windowStart |-> now,
                                              count |-> 1,
                                              lastSeenAt |-> now]]]
        ELSE IF countReached(bucket.count)
        THEN [allowed |-> FALSE,
              retryAfter |-> IF left < 0 THEN 0 ELSE left,
              buckets |-> [C EXCEPT ![key].lastSeenAt = now]]
        ELSE [allowed |-> TRUE, retryAfter |-> 0,
              buckets |-> [C EXCEPT ![key].lastSeenAt = now,
                                    ![key].count = bucket.count + 1]]

\* int(math.Ceil(retryAfter.Seconds())), at least 1
retryAfterSeconds(retryAfter) ==
    LET seconds == (retryAfter + UnitsPerSecond - 1) \div UnitsPerSecond
    IN  IF seconds < 1 THEN 1 ELSE seconds

\* goroutines being interchangeable, a request is served by the least one
\* that serves none
LimiterFree(p) ==
    /\ lcall[p].pc = "idle"
    /\ \A q \in Procs : q < p => lcall[q].pc # "idle"

\* the handler of limitByIP(scope) up to l.now() in allow: with a blank
\* scope limitByIP returned next itself
LimitByIP(p, scope, remoteAddr) ==
    /\ LimiterFree(p)
    /\ IF TrimSpace(scope) = ""
       THEN /\ lresp' = [NoLResp EXCEPT !.op = "limitByIP",
                                        !.scope = scope,
                                        !.addr = remoteAddr,
                                        !.next = TRUE]
            /\ UNCHANGED lcall
       ELSE /\ lcall' = [lcall EXCEPT ![p] =
                           [pc |-> "lock", scope |-> scope,
                            addr |-> remoteAddr,
                            key |-> limiterKey(scope, remoteAddr),
                            now |-> clock]]
            /\ lresp' = NoLResp
    /\ UNCHANGED <<clock, buckets, authVars, flowVars, oresp, userVars, uresp>>

\* allow from l.mu.Lock() on and the rest of the handler: 429 with
\* Retry-After, as JSON on an /api/ path, or next.ServeHTTP
Allow(p) ==
    /\ lcall[p].pc = "lock"
    /\ LET c == lcall[p]
           result == allow(buckets, c.key, c.now)
           r == [NoLResp EXCEPT !.op = "limitByIP", !.scope = c.scope,
                                !.addr = c.addr, !.key = c.key,
                                !.now = c.now, !.found = buckets[c.key]]
       IN  /\ buckets' = result.buckets
           /\ lresp' =
                 IF result.allowed
                 THEN [r EXCEPT !.next = TRUE]
                 ELSE [r EXCEPT
                         !.status = 429,
                         !.retryAfter =
                            IF result.retryAfter > 0
                            THEN retryAfterSeconds(result.retryAfter)
                            ELSE NULL,
                         !.body = IF SubSeq(RoutePath(c.scope), 1, 5) = "/api/"
                                  THEN "json" ELSE "text"]
    /\ lcall' = [lcall EXCEPT ![p] = NoLCall]
    /\ UNCHANGED <<clock, authVars, flowVars, oresp, userVars, uresp>>

\* time passes for the rate limiter: the handler of goroutine 1 may be
\* held up between l.now() and l.mu.Lock() for any time, the one that
\* overtakes it is not
LimiterTick ==
    /\ clock < MaxLimiterTime
    /\ \A p \in Procs \ {1} : lcall[p].pc = "idle"
    /\ clock' = clock + 1
    /\ lresp' = NoLResp
    /\ UNCHANGED <<limiterVars, authVars, flowVars, oresp, userVars, uresp>>

\* time passes for the session table, long enough for a session to be
\* idle for more than touchAfter and to expire
SessionTick ==
    /\ clock < MaxSessionTime
    /\ clock' = clock + 1
    /\ resp' = NoResp
    /\ wresp' = NoWResp
    /\ UNCHANGED <<tokenVars, webVars, otherVars>>

\* web requests against the session table: goroutine 1 is followed through
\* loadSession, the handlers that run while it is in flight are served by
\* goroutine 2; users being interchangeable, a session is created for a
\* user who has one or for the least of those who have none
NextSession ==
    \/ SessionTick
    \/ \E p \in Procs, raw \in sessionRandomToken :
          \E u \in {x.user_id : x \in user_sessions}
                     \cup {v \in Users : \A w \in Users :
                             (\A x \in user_sessions : x.user_id # w)
                                => v <= w} :
             CreateSession(p, u, raw)
    \/ \E path \in Paths, token \in SessionTokens \cup {NULL} :
          LoadSessionFind(1, path, token)
    \/ LoadSessionCheck(1)
    \/ \E p \in Procs, token \in SessionTokens \cup {NULL} : Logout(p, token)
    \/ \E id \in 1..MaxSessions : RevokeSessionRow(id)
    \/ \E name \in {"requireAuth", "requireGuest"}, htmx \in BOOLEAN :
          Guard(name, htmx)

\* starts and callbacks of social logins of both goroutines against the
\* flow store
NextOAuth ==
    \/ Tick
    \/ \E p \in Procs, provider \in Providers, to \in RedirectTargets :
          FlowCall(p, "create", NULL, provider, to)
    \/ \E p \in Procs, provider \in Providers, state \in 1..MaxFlows :
          FlowCall(p, "consume", state, provider, "")
    \/ \E p \in Procs : FlowCreate(p)
    \/ \E p \in Procs : FlowConsume(p)

\* sign-ins of both goroutines with the profiles the providers verified
NextUsers ==
    \/ \E p \in Procs, profile \in SocialProfiles :
          SignInFindByIdentity(p, profile)
    \/ \E p \in Procs : SignInUpdate(p)
    \/ \E p \in Procs : SignInFindByID(p)
    \/ \E p \in Procs : SignInFindByEmail(p)
    \/ \E p \in Procs : CreateCheckEmail(p)
    \/ \E p \in Procs : CreateInsertUser(p)
    \/ \E p \in Procs : CreateInsertIdentity(p)
    \/ \E p \in Procs : CreateCommit(p)

\* sign-ins, one at a time, with the profiles of one identity that
\* differ in name, username and avatar
NextProfile ==
    \/ \E profile \in [Provider : {"google"}, ProviderUserID : {"u1"},
                        Email : {"a@x"}, EmailVerified : {TRUE},
                        Name : {"", " ", "Ann", "Bob"},
                        Username : {"", "ann"},
                        AvatarURL : {"", "pic"}] :
          SignInFindByIdentity(1, profile)
    \/ SignInUpdate(1)
    \/ SignInFindByID(1)
    \/ SignInFindByEmail(1)
    \/ CreateCheckEmail(1)
    \/ CreateInsertUser(1)
    \/ CreateInsertIdentity(1)
    \/ CreateCommit(1)

\* the statements of the sign-in a handler has called on goroutine 1
NextSignInOfHandler ==
    \/ \E profile \in SocialProfiles :
          ucall[1].pc = "sign_in" /\ SignInFindByIdentity(1, profile)
    \/ SignInUpdate(1)
    \/ SignInFindByID(1)
    \/ SignInFindByEmail(1)
    \/ CreateCheckEmail(1)
    \/ CreateInsertUser(1)
    \/ CreateInsertIdentity(1)
    \/ CreateCommit(1)

\* logins on the API, one request at a time
NextAPILogin ==
    \/ \E provider \in Providers \cup {"gitlab"}, body \in LoginBodies :
          \E verified \in VerifierOutcomes(provider) :
             APILoginVerify(1, provider, body, verified)
    \/ NextSignInOfHandler
    \/ \E raw \in randomToken : APILoginAnswer(1, raw)

\* starts and callbacks of social logins on the web, one request at a
\* time
NextCallback ==
    \/ Tick
    \/ \E provider \in Providers \cup {"gitlab", " "} :
          \E next \in {"", " ", "/account", "/", "account",
                        "//evil.example", "https://evil.example",
                        "/\\evil.example"} :
             UserIdle(1) /\ StartSocialLogin(1, provider, next)
    \/ FlowCreate(1)
    \/ \E provider \in Providers \cup {"gitlab", " "} :
          \E errParam \in {"", "access_denied"}, code \in {"", "code"} :
             \E state \in {NULL} \cup (1..MaxFlows) :
                OAuthCallbackStart(1, provider, errParam, code, state)
    \/ OAuthCallbackConsume(1)
    \/ NextSignInOfHandler
    \/ \E raw \in sessionRandomToken : OAuthCallbackAnswer(1, raw)

\* logins with a configured provider and with another, and refreshes, on
\* the API, one request at a time
NextAPI ==
    \/ Tick
    \/ \E provider \in {"google", "gitlab"}, body \in LoginBodies :
          \E verified \in VerifierOutcomes(provider) :
             Free(1) /\ APILoginVerify(1, provider, body, verified)
    \/ NextSignInOfHandler
    \/ \E raw \in randomToken : APILoginAnswer(1, raw)
    \/ \E raw \in RawTokens : ucall[1].pc = "idle" /\ RotateSelect(1, raw)
    \/ RotateReuseUpdate(1)
    \/ RotateReuseCommit(1)
    \/ RotateFollowup(1)
    \/ \E newRaw \in randomToken : RotateInsert(1, newRaw)
    \/ RotateMark(1)
    \/ RotateCommit(1)

\* requests of both goroutines on the rate-limited routes
NextLimiter ==
    \/ LimiterTick
    \/ \E p \in Procs, r \in LimiterRequests : LimitByIP(p, r[1], r[2])
    \/ \E p \in Procs : Allow(p)

vars == <<clock, api_refresh_tokens, pc, call, resp,
          user_sessions, sessionSeq, wpc, wcall, wresp,
          flows, flowSeq, ocall, oresp,
          users, user_identities, ucall, uresp,
          buckets, lcall, lresp>>

Spec == Init /\ [][Next]_vars

SpecStore == Init /\ [][NextStore]_vars

SpecRace == Init /\ [][NextRace]_vars

SpecAccess == Init /\ [][NextAccess]_vars

SpecAPILogin == Init /\ [][NextAPILogin]_vars

SpecAPI == Init /\ [][NextAPI]_vars

SpecCallback == Init /\ [][NextCallback]_vars

SpecAccessStore == Init /\ [][NextAccessStore]_vars

SpecSession == Init /\ [][NextSession]_vars

SpecOAuth == Init /\ [][NextOAuth]_vars

SpecUsers == Init /\ [][NextUsers]_vars

SpecProfile == Init /\ [][NextProfile]_vars

SpecLimiter == Init /\ [][NextLimiter]_vars

TypeOK ==
    /\ clock \in 1..(MaxTime + MaxLimiterTime)
    /\ \A r \in api_refresh_tokens : r.id \in 1..MaxRows
    /\ sessionSeq \in 1..(MaxSessions + 1)
    /\ \A x \in user_sessions :
          /\ x.id \in 1..(sessionSeq - 1)
          /\ x.user_id \in Users
          /\ x.expires_at \in 1..(MaxTime + MaxSessionTime + sessionTTL)
    /\ \A p \in Procs : wpc[p] \in {"idle", "ls_check"}

(***************************************************************************)
(* Refresh-token rotation                                                  *)
(***************************************************************************)

\* C1: once a refresh presenting R0 has succeeded (it returns a token R1
\* different from R0), a row that is revoked or replaced stays so, every
\* refresh that presents a token whose row is already revoked or replaced
\* (R0 after its rotation, R1 after the family revocation) is answered 401,
\* and when that refresh detected the reuse every row of the family is
\* revoked afterwards.
C1_ReplayAfterRotationRejected ==
    [][/\ \A r \in api_refresh_tokens :
            (r.revoked_at # NULL \/ r.replaced_by_token_id # NULL) =>
               \E x \in api_refresh_tokens' :
                  /\ x.id = r.id
                  /\ x.token_hash = r.token_hash
                  /\ x.revoked_at # NULL
                  /\ x.replaced_by_token_id = r.replaced_by_token_id
       /\ resp'.op = "refresh" =>
            /\ resp'.status = 200 =>
                 /\ resp'.refresh_token # resp'.raw
                 /\ \E r0, r1 \in api_refresh_tokens' :
                       /\ r0.token_hash = hashToken(resp'.raw)
                       /\ r1.token_hash = hashToken(resp'.refresh_token)
                       /\ r0.replaced_by_token_id = r1.id
            /\ \A r \in api_refresh_tokens :
                 ( /\ r.token_hash = hashToken(resp'.raw)
                   /\ (r.revoked_at # NULL \/ r.replaced_by_token_id # NULL) )
                 => /\ resp'.status = 401
                    /\ resp'.result.ReuseDetected =>
                         \A x \in api_refresh_tokens' :
                            x.family_id = r.family_id => x.revoked_at # NULL
      ]_vars

\* a refresh presenting R1 was just answered 401 as reuse, where R1 had
\* replaced R0, was never rotated itself and has not expired: its family
\* was revoked by a replay
C1_Witness ==
    /\ resp.op = "refresh"
    /\ resp.status = 401
    /\ resp.result.ReuseDetected
    /\ \E r0, r1 \in api_refresh_tokens :
          /\ r0.replaced_by_token_id = r1.id
          /\ r1.token_hash = hashToken(resp.raw)
          /\ r1.replaced_by_token_id = NULL
          /\ r1.revoked_at # NULL
          /\ clock <= r1.expires_at

C3_OneActiveTokenPerFamily ==
    [][/\ \A f \in 1..MaxRows :
            Cardinality({r \in api_refresh_tokens' :
                            /\ r.family_id = f
                            /\ r.revoked_at = NULL
                            /\ r.replaced_by_token_id = NULL}) <= 1
       /\ (resp'.op = "issue" /\ resp'.status = 200) =>
            \E n \in api_refresh_tokens' :
               /\ n \notin api_refresh_tokens
               /\ api_refresh_tokens' = api_refresh_tokens \cup {n}
               /\ \A r \in api_refresh_tokens : r.family_id # n.family_id
               /\ n.token_hash = hashToken(resp'.refresh_token)
      ]_vars

\* a rotation just failed on a store error while a family holds a rotated
\* row and its single active successor
C3_Witness ==
    /\ resp.op = "refresh"
    /\ resp.result.err
    /\ \E r0, r1 \in api_refresh_tokens :
          /\ r0.replaced_by_token_id = r1.id
          /\ r1.family_id = r0.family_id
          /\ r1.revoked_at = NULL
          /\ r1.replaced_by_token_id = NULL

\* C4: two transactions never rotate the same row: while one is between
\* its select and its commit on the rotation path, the row it selected is
\* still the committed row and no other open transaction has selected it,
\* so the later one reads the rotated row and takes the reuse path.
C4_NoDoubleRotation ==
    \A p \in Procs :
       pc[p] \in {"rot_insert", "rot_mark", "rot_commit"} =>
          /\ call[p].current \in api_refresh_tokens
          /\ \A q \in Procs \ {p} :
                pc[q] \in {"rot_reuse", "rot_reuse_commit", "rot_insert",
                           "rot_mark", "rot_commit"}
                   => call[q].current.id # call[p].current.id

\* a refresh presenting R0 was just answered 401 as reuse in the very tick
\* in which R0 was rotated: the successor was revoked at the rotation time
C4_Witness ==
    /\ resp.op = "refresh"
    /\ resp.status = 401
    /\ resp.result.ReuseDetected
    /\ \E r0, r1 \in api_refresh_tokens :
          /\ r0.token_hash = hashToken(resp.raw)
          /\ r0.replaced_by_token_id = r1.id
          /\ r1.replaced_by_token_id = NULL
          /\ r1.revoked_at = r0.revoked_at
          /\ r0.revoked_at = clock

\* C5: the commit of a rotation adds exactly one row, with the old row's
\* user id and family id, the new hash and expiry now + TTL; the old row
\* gets revoked_at = last_used_at = now and replaced_by_token_id = the new
\* id; no other row changes; the result is Authorized, not ReuseDetected,
\* with the old row's user id and family id.
C5_SuccessfulRotation ==
    [][\A p \in Procs :
          (pc[p] = "rot_commit" /\ pc'[p] = "idle" /\ resp'.status = 200) =>
             LET old == call[p].current
                 oldIds == {r.id : r \in api_refresh_tokens}
                 added == {r \in api_refresh_tokens' : r.id \notin oldIds}
             IN  /\ old \in api_refresh_tokens
                 /\ Cardinality(added) = 1
                 /\ Cardinality(api_refresh_tokens') =
                       Cardinality(api_refresh_tokens) + 1
                 /\ \A n \in added :
                       /\ n = NewRow(n.id, old.user_id, old.family_id,
                                     hashToken(resp'.refresh_token),
                                     call[p].now + apiRefreshTokenTTL)
                       /\ [old EXCEPT !.revoked_at = call[p].now,
                                      !.last_used_at = call[p].now,
                                      !.replaced_by_token_id = n.id]
                             \in api_refresh_tokens'
                 /\ \A r \in api_refresh_tokens :
                       r.id # old.id => r \in api_refresh_tokens'
                 /\ resp'.result =
                       [err |-> FALSE, UserID |-> old.user_id,
                        FamilyID |-> old.family_id,
                        ReuseDetected |-> FALSE, Authorized |-> TRUE]
      ]_vars

\* a rotation of a token of user 2 was just answered 200
C5_Witness ==
    /\ resp.op = "refresh"
    /\ resp.status = 200
    /\ \E r0, r1 \in api_refresh_tokens :
          /\ r0.token_hash = hashToken(resp.raw)
          /\ r1.token_hash = hashToken(resp.refresh_token)
          /\ r0.replaced_by_token_id = r1.id
          /\ r0.user_id = 2
          /\ r1.user_id = 2

\* C6: a refresh whose token hash matches no row is answered 401 with
\* neither ReuseDetected nor a family id, and no row of api_refresh_tokens
\* is inserted or changed.
C6_UnknownTokenUnauthorized ==
    [][( /\ resp'.op = "refresh"
         /\ \A r \in api_refresh_tokens :
               r.token_hash # hashToken(resp'.raw) )
       => /\ resp'.status = 401
          /\ ~resp'.result.Authorized
          /\ ~resp'.result.ReuseDetected
          /\ resp'.result.FamilyID = NoFamily
          /\ resp'.refresh_token = NULL
          /\ api_refresh_tokens' = api_refresh_tokens
      ]_vars

\* an unknown token was just refused by the store, without an error, while
\* the table holds an active row
C6_Witness ==
    /\ resp.op = "refresh"
    /\ resp.status = 401
    /\ ~resp.result.err
    /\ ~resp.result.ReuseDetected
    /\ \A r \in api_refresh_tokens : r.token_hash # hashToken(resp.raw)
    /\ \E r \in api_refresh_tokens : r.revoked_at = NULL

\* C7: RevokeAPIRefreshTokenFamily(f, now) sets revoked_at = now on the
\* rows of family f that had none, leaves the revoked_at of the others of
\* the family and every row of another family as they were, and a second
\* call, at any time, changes nothing.
C7_RevokeFamilyIdempotent ==
    [][(resp'.op = "revokeFamily" /\ ~resp'.result.err) =>
          /\ \A r \in api_refresh_tokens :
                IF r.family_id = resp'.family /\ r.revoked_at = NULL
                THEN [r EXCEPT !.revoked_at = clock] \in api_refresh_tokens'
                ELSE r \in api_refresh_tokens'
          /\ Cardinality(api_refresh_tokens') =
                Cardinality(api_refresh_tokens)
          /\ \A t \in 1..MaxTime :
                RevokeFamilyRows(api_refresh_tokens', resp'.family, t) =
                   api_refresh_tokens'
      ]_vars

\* a family was just revoked that held a row revoked earlier and a row
\* revoked now, while a row of another family is still not revoked
C7_Witness ==
    /\ resp.op = "revokeFamily"
    /\ ~resp.result.err
    /\ \E r, x, y \in api_refresh_tokens :
          /\ r.family_id = resp.family
          /\ x.family_id = resp.family
          /\ r.revoked_at # NULL
          /\ r.revoked_at < clock
          /\ x.revoked_at = clock
          /\ y.family_id # resp.family
          /\ y.revoked_at = NULL

(***************************************************************************)
(* Web sessions                                                            *)
(***************************************************************************)

\* C8: loadSession compares with now.After(expiresAt): a session that is
\* not revoked and whose expires_at equals the time.Now() of the check is
\* still valid, its user is attached and the cookie is left alone; it is
\* expired, the cookie cleared and no user attached, only when now is
\* strictly after expires_at.
C8_ExpiresAtNowStillValid ==
    (wresp.op = "loadSession" /\ wresp.now # NULL) =>
        /\ (wresp.sess.expires_at = wresp.now /\ wresp.sess.revoked_at = NULL)
              => /\ wresp.currentUser = wresp.sess.user_id
                 /\ wresp.currentUser # NULL
                 /\ wresp.cookie = "none"
                 /\ wresp.next
        /\ wresp.now > wresp.sess.expires_at
              => /\ wresp.currentUser = NULL
                 /\ wresp.cookie = "cleared"
                 /\ wresp.next

\* a check at now = expires_at of an unrevoked session attached its user
C8_Witness ==
    /\ wresp.op = "loadSession"
    /\ wresp.sess.id # NULL
    /\ wresp.now = wresp.sess.expires_at
    /\ wresp.sess.revoked_at = NULL
    /\ wresp.currentUser = wresp.sess.user_id
    /\ wresp.cookie = "none"

\* C8 as stated: a session whose expires_at equals now is treated as
\* expired, loadSession attaches no user
C8_ExpiresAtNowIsExpired ==
    (/\ wresp.op = "loadSession"
     /\ wresp.now # NULL
     /\ wresp.sess.expires_at = wresp.now) => wresp.currentUser = NULL

\* C9: when loadSession has read a cookie token and the token matches no
\* session, or the lookup fails, or the session read is revoked, or now is
\* after its expires_at, it clears the cookie, attaches no user, calls the
\* downstream handler and writes neither an error nor a redirect.
C9_InvalidSessionFallsBackToAnonymous ==
    [][(wresp'.op = "loadSession" /\ wresp'.token # NULL) =>
         LET r == wresp'
             rows == {x \in user_sessions :
                         x.token_hash = hashToken(r.token)}
             invalid ==
                 \/ r.now = NULL /\ (rows = {} \/ r.lookupErr)
                 \/ r.now # NULL /\ r.sess.revoked_at # NULL
                 \/ r.now # NULL /\ r.now > r.sess.expires_at
         IN  /\ invalid =>
                  /\ r.cookie = "cleared"
                  /\ r.currentUser = NULL
                  /\ r.next
                  /\ ~r.err
                  /\ r.redirect = ""
             \* a request that is not through the lookup is one of these
             /\ r.now = NULL => invalid
             \* the session table is left as it was
             /\ invalid => user_sessions' = user_sessions]_vars

\* a revoked session that is not past its expiry was turned away
C9_Witness ==
    /\ wresp.op = "loadSession"
    /\ wresp.sess.id # NULL
    /\ wresp.sess.revoked_at # NULL
    /\ wresp.now <= wresp.sess.expires_at
    /\ wresp.cookie = "cleared"
    /\ wresp.currentUser = NULL
    /\ wresp.next

\* C10: loadSession always calls the downstream handler; the row it keeps
\* for the check is a stored row whose token_hash is the hash of the cookie
\* token; it attaches a user exactly when that row is neither revoked nor
\* past its expires_at at the check, and the user attached is the row's
\* user_id; on a skipped path or without cookie no user is attached.
C10_AttachesExactlyTheOwner ==
    [][/\ \A p \in Procs :
            (wpc[p] = "idle" /\ wpc'[p] = "ls_check") =>
               /\ wcall'[p].sess \in user_sessions
               /\ wcall'[p].token # NULL
               /\ wcall'[p].sess.token_hash = hashToken(wcall'[p].token)
               /\ ~skipSessionLoad(wcall'[p].path)
       /\ wresp'.op = "loadSession" =>
            LET r == wresp'
                valid ==
                    /\ r.now # NULL
                    /\ \E p \in Procs :
                          /\ wpc[p] = "ls_check"
                          /\ wpc'[p] = "idle"
                          /\ r.sess = wcall[p].sess
                          /\ r.token = wcall[p].token
                    /\ r.sess.token_hash = hashToken(r.token)
                    /\ r.sess.revoked_at = NULL
                    /\ r.now <= r.sess.expires_at
            IN  /\ r.next
                /\ r.currentUser # NULL <=> valid
                /\ valid => r.currentUser = r.sess.user_id
                /\ valid => r.cookie = "none"]_vars

\* a user was attached while another user's session is stored as well
C10_Witness ==
    /\ wresp.op = "loadSession"
    /\ wresp.currentUser # NULL
    /\ wresp.currentUser = wresp.sess.user_id
    /\ wresp.next
    /\ \E x \in user_sessions :
          /\ x.user_id # wresp.currentUser
          /\ x.revoked_at = NULL
          /\ x.expires_at >= wresp.now

C13_GuardsAreComplementary ==
    /\ wresp.op = "requireAuth" =>
          /\ wresp.next <=> wresp.currentUser # NULL
          /\ ~wresp.next =>
                \/ /\ ~wresp.htmx
                   /\ wresp.status = 303
                   /\ wresp.redirect = "/auth/login"
                \/ /\ wresp.htmx
                   /\ wresp.status = 401
                   /\ wresp.hxRedirect = "/auth/login"
    /\ wresp.op = "requireGuest" =>
          /\ wresp.next <=> wresp.currentUser = NULL
          /\ ~wresp.next =>
                /\ wresp.status = 303
                /\ wresp.redirect = "/account"
    /\ (wresp.op = "loadSession" /\ wresp.next) =>
          \A htmx \in BOOLEAN :
             requireAuth(wresp.currentUser, htmx).next
                # requireGuest(wresp.currentUser, htmx).next

\* requireAuth has turned away a request whose session had been revoked
C13_Witness ==
    /\ wresp.op = "requireAuth"
    /\ wresp.sess.revoked_at # NULL
    /\ wresp.currentUser = NULL
    /\ ~wresp.next
    /\ wresp.redirect = "/auth/login"

(***************************************************************************)
(* OAuth flows                                                             *)
(***************************************************************************)

\* C14: a consume that returns a record returns the record stored under
\* its state and leaves no record under that state; a consume of a state
\* that has no record returns errOAuthFlowNotFound and no record; a state
\* that was created and has no record never gets a record again.  So of
\* all consume calls of a state, in whatever order the two goroutines get
\* the mutex, at most one returns the record.
C14_StateIsSingleUse ==
    [][/\ oresp'.op = "consume" =>
            LET r == oresp'
                before == FlowsAt(flows, r.state)
            IN  /\ FlowsAt(flows', r.state) = {}
                /\ r.record # NoFlow =>
                      /\ r.record \in before
                      /\ r.err = ""
                /\ before = {} =>
                      /\ r.record = NoFlow
                      /\ r.err = "errOAuthFlowNotFound"
                /\ r.record = NoFlow <=> r.err = "errOAuthFlowNotFound"
       /\ \A state \in 1..MaxFlows :
            (state < flowSeq /\ FlowsAt(flows, state) = {})
               => FlowsAt(flows', state) = {}
       /\ \A state \in 1..MaxFlows :
            Cardinality(FlowsAt(flows', state)) <= 1]_vars

\* the second of two consume calls that were waiting for the mutex with
\* the same state, the right provider and an early enough now has failed
C14_Witness ==
    /\ oresp.op = "consume"
    /\ oresp.err = "errOAuthFlowNotFound"
    /\ oresp.found = NoFlow
    /\ oresp.state < flowSeq
    /\ oresp.now = 1
    /\ clock = 1
    /\ \A p \in Procs : ocall[p] = NoOCall
    /\ flowSeq = 2

\* C15: a consume that finds a record under its state and is called with
\* another provider than the record's, or with a now after the record's
\* ExpiresAt, returns errOAuthFlowNotFound and no record, and the record
\* is gone; as a state without record never gets one again, every later
\* consume of that state fails as well.
C15_FailedConsumeBurnsState ==
    [][/\ oresp'.op = "consume" =>
            \A f \in FlowsAt(flows, oresp'.state) :
               (f.Provider # oresp'.provider \/ oresp'.now > f.ExpiresAt)
                  => /\ oresp'.err = "errOAuthFlowNotFound"
                     /\ oresp'.record = NoFlow
                     /\ FlowsAt(flows', oresp'.state) = {}
       /\ \A state \in 1..MaxFlows :
            (/\ state < flowSeq
             /\ FlowsAt(flows, state) = {}
             /\ oresp'.op = "consume"
             /\ oresp'.state = state)
               => /\ oresp'.err = "errOAuthFlowNotFound"
                  /\ oresp'.record = NoFlow
                  /\ FlowsAt(flows', state) = {}
       /\ \A state \in 1..MaxFlows :
            (/\ state < flowSeq
             /\ FlowsAt(flows, state) = {}
             /\ oresp'.op # "consume")
               => FlowsAt(flows', state) = {}]_vars

\* a consume in time but with the wrong provider has failed and removed
\* the record it found
C15_Witness ==
    /\ oresp.op = "consume"
    /\ oresp.found # NoFlow
    /\ oresp.found.Provider # oresp.provider
    /\ oresp.now <= oresp.found.ExpiresAt
    /\ oresp.err = "errOAuthFlowNotFound"
    /\ FlowsAt(flows, oresp.state) = {}

\* C16: a sign-in whose (provider, provider_user_id) had no identity and
\* whose profile carries a verified email that a row of users holds never
\* creates or changes a row, returns no user and ends with an error:
\* ErrEmailConflict from FindByEmail, and when that lookup itself fails
\* (or the user got the email after it), ErrEmailConflict from
\* CreateUserWithIdentity, the error of Validate or the error of a failed
\* statement; it never gets past the insert into users.
C16_VerifiedEmailOfAnotherUserConflicts ==
    [][\A p \in Procs :
          (/\ ucall[p].pc \in {"find_email", "create", "insert_user",
                               "insert_identity", "commit"}
           /\ ucall[p].profile.EmailVerified
           /\ \E u \in users :
                 u.email = TrimSpace(ToLower(ucall[p].profile.Email))
           /\ ucall'[p] # ucall[p])
             => /\ users' = users
                /\ user_identities' = user_identities
                /\ ucall[p].pc \in {"find_email", "create", "insert_user"}
                /\ ucall'[p].pc \in {"idle", "create"}
                /\ ucall'[p].pc = "idle"
                      => /\ uresp'.op = "findOrCreateSocialUser"
                         /\ uresp'.profile = ucall[p].profile
                         /\ uresp'.user = NoUser
                         /\ uresp'.err \in IF ucall[p].pc = "find_email"
                                           THEN {"ErrEmailConflict"}
                                           ELSE {"ErrEmailConflict",
                                                 "invalid", "store"}]_vars

\* FindByEmail has answered a sign-in with an unknown identity and the
\* verified, differently cased email of a user with ErrEmailConflict
C16_Witness ==
    /\ uresp.op = "findOrCreateSocialUser"
    /\ uresp.err = "ErrEmailConflict"
    /\ uresp.profile.EmailVerified
    /\ uresp.profile.Email = "A@X"
    /\ FindByIdentity(uresp.profile.Provider,
                      uresp.profile.ProviderUserID) = {}
    /\ \E u \in users : u.email = "a@x"
    /\ Cardinality(users) = 1
    /\ Cardinality(user_identities) = 1
    /\ \A p \in Procs : ucall[p] = NoUCall

\* C17: in every state no two rows of users have the same email, every
\* email of a row of users is its own lower-cased form, and no two rows of
\* user_identities have the same (provider, provider_user_id).
C17_EmailsAndIdentitiesAreUnique ==
    /\ \A u1 \in users, u2 \in users :
          (u1.email # NullText /\ ToLower(u1.email) = ToLower(u2.email))
             => u1 = u2
    /\ \A u \in users : u.email # NullText => u.email = ToLower(u.email)
    /\ \A i1 \in user_identities, i2 \in user_identities :
          (i1.provider = i2.provider
             /\ i1.provider_user_id = i2.provider_user_id) => i1 = i2

\* two users, one with an email, and their identities at two providers:
\* the second sign-in came with the other casing of the email or with none
C17_Witness ==
    /\ Cardinality(users) = 2
    /\ Cardinality(user_identities) = 2
    /\ \E u \in users : u.email = "a@x"
    /\ uresp.op = "findOrCreateSocialUser"
    /\ uresp.err = "ErrEmailConflict"
    /\ uresp.profile.Email = "A@X"

\* C18: in every state every row of users has a row of user_identities,
\* whatever statement of CreateUserWithIdentity failed before.
C18_EveryUserHasAnIdentity ==
    \A u \in users : \E i \in user_identities : i.user_id = u.id

\* a CreateUserWithIdentity has failed after its insert into users, at the
\* insert of the identity, and the table holds a user with its identity
C18_Witness ==
    /\ uresp.op = "findOrCreateSocialUser"
    /\ uresp.err = "ErrIdentityConflict"
    /\ users # {}
    /\ \A u \in users : \E i \in user_identities : i.user_id = u.id

(***************************************************************************)
(* Rate limiting                                                           *)
(***************************************************************************)

C21_AllowedAgainAfterTheWindow ==
    [][\A p \in Procs :
          (/\ lcall[p].pc = "lock"
           /\ lcall'[p] = NoLCall
           /\ buckets[lcall[p].key] # ZeroBucket
           /\ lcall[p].now - buckets[lcall[p].key].windowStart >= window)
             => /\ lresp'.next
                /\ lresp'.status = NULL
                /\ lresp'.retryAfter = NULL
                /\ buckets'[lcall[p].key] =
                      [windowStart |-> lcall[p].now, count |-> 1,
                       lastSeenAt |-> lcall[p].now]]_vars

\* a request exactly one window after the start of a window in which
\* limit requests were counted, so that every further one was denied,
\* was let through and started a window with count 1
C21_Witness ==
    /\ lresp.op = "limitByIP"
    /\ lresp.next
    /\ lresp.found.count = limit
    /\ lresp.found.windowStart = 1
    /\ lresp.found.lastSeenAt = 1
    /\ lresp.now = lresp.found.windowStart + window
    /\ buckets[lresp.key] = [windowStart |-> lresp.now, count |-> 1,
                             lastSeenAt |-> lresp.now]

(***************************************************************************)
(* API logout, access tokens, API login                                    *)
(***************************************************************************)

C27_InvalidSessionIsRevokedOrDeleted ==
    [][(/\ wresp'.op = "loadSession"
        /\ wresp'.now # NULL
        /\ \/ wresp'.sess.revoked_at # NULL
           \/ wresp'.now > wresp'.sess.expires_at) =>
         \A x \in user_sessions :
            x.id = wresp'.sess.id => x \notin user_sessions']_vars

\* C27: when loadSession finds the session it read revoked or past its
\* expires_at, it only clears the cookie and goes on as anonymous: every
\* row of user_sessions, the row of that session included, is after the
\* request what it was before it.
C27_InvalidSessionRowIsLeftAsItIs ==
    [][(/\ wresp'.op = "loadSession"
        /\ wresp'.now # NULL
        /\ \/ wresp'.sess.revoked_at # NULL
           \/ wresp'.now > wresp'.sess.expires_at) =>
         /\ user_sessions' = user_sessions
         /\ wresp'.cookie = "cleared"
         /\ wresp'.currentUser = NULL]_vars

\* an expired session that was never revoked has been turned away and its
\* row is still stored with no revocation time
C27_Witness ==
    /\ wresp.op = "loadSession"
    /\ wresp.now # NULL
    /\ wresp.sess.id # NULL
    /\ wresp.now > wresp.sess.expires_at
    /\ wresp.sess.revoked_at = NULL
    /\ wresp.cookie = "cleared"
    /\ wresp.sess \in user_sessions

\* C30: a sign-in that has found no user for its identity and returns from
\* CreateUserWithIdentity while a user with its email is stored fails with
\* ErrEmailConflict; one that returns while its (provider,
\* provider_user_id) is stored for a user with another email fails with
\* ErrIdentityConflict; a failed sign-in leaves users and user_identities
\* as they were, and a successful one adds exactly its user and its
\* identity, whose email and identity key no stored row had.  (A statement
\* that fails for another reason ends the sign-in with that error and
\* without rows as well.)
C30_RacingSignInsCreateOneUser ==
    [][\A q \in Procs :
         (/\ ucall[q].pc \in {"create", "insert_user", "insert_identity",
                               "commit"}
          /\ ucall'[q].pc = "idle") =>
            LET profile == ucall[q].profile
                email == TrimSpace(ToLower(profile.Email))
                emailStored == /\ email # ""
                               /\ \E u \in users : u.email = email
                identityStored ==
                    \E i \in user_identities :
                       /\ i.provider = TrimSpace(ToLower(profile.Provider))
                       /\ i.provider_user_id =
                             TrimSpace(profile.ProviderUserID)
            IN  /\ uresp'.profile = profile
                /\ emailStored =>
                     uresp'.err \in {"ErrEmailConflict", "store", "invalid"}
                /\ (identityStored /\ ~emailStored) =>
                     uresp'.err \in {"ErrIdentityConflict", "store"}
                /\ uresp'.err # "" =>
                     /\ uresp'.user = NoUser
                     /\ users' = users
                     /\ user_identities' = user_identities
                /\ uresp'.err = "" =>
                     /\ ~emailStored
                     /\ ~identityStored
                     /\ uresp'.user \notin users
                     /\ users' = users \cup {uresp'.user}
                     /\ Cardinality(user_identities') =
                           Cardinality(user_identities) + 1
                     /\ \A i \in user_identities' \ user_identities :
                           i.user_id = uresp'.user.id]_vars

\* the loser of a race for one identity: its insert found the identity
\* of the user the winner created, it got ErrIdentityConflict, and the
\* winner's user is the only one stored
C30_Witness ==
    /\ uresp.op = "findOrCreateSocialUser"
    /\ uresp.err = "ErrIdentityConflict"
    /\ uresp.user = NoUser
    /\ Cardinality(users) = 1
    /\ Cardinality(user_identities) = 1
    /\ \E i \in user_identities :
          /\ i.provider = TrimSpace(ToLower(uresp.profile.Provider))
          /\ i.provider_user_id = TrimSpace(uresp.profile.ProviderUserID)
          /\ i.provider_email # nullif(storedEmail(uresp.profile.Email))

(***************************************************************************)
(* API access tokens                                                       *)
(***************************************************************************)

C24_ReuseAnswersLikeUnknown ==
    [][resp'.op = "refresh" =>
         LET unknown == RowsByHash(api_refresh_tokens,
                                   hashToken(resp'.raw)) = {}
             reused == resp'.result.ReuseDetected
             seen == [status |-> resp'.status, message |-> resp'.message,
                      access_token |-> resp'.access_token,
                      refresh_token |-> resp'.refresh_token,
                      cookie |-> resp'.cookie]
         IN  (unknown \/ reused \/ resp'.status # 200) =>
                seen = [status |-> 401,
                        message |-> "invalid refresh token",
                        access_token |-> NoAccessToken,
                        refresh_token |-> NULL, cookie |-> "none"]]_vars

\* a refresh that presented a token of a stored row was found to be a
\* reuse, the rows of its family are revoked, and it was answered 401
\* "invalid refresh token"
C24_Witness ==
    /\ resp.op = "refresh"
    /\ resp.result.ReuseDetected
    /\ resp.result.FamilyID # NoFamily
    /\ \A r \in api_refresh_tokens :
          r.family_id = resp.result.FamilyID => r.revoked_at # NULL
    /\ \E r \in api_refresh_tokens :
          /\ r.token_hash = hashToken(resp.raw)
          /\ r.replaced_by_token_id # NULL
    /\ resp.status = 401
    /\ resp.message = "invalid refresh token"
    /\ resp.cookie = "none"

\* C29: requireAPIAuth neither reads nor writes api_refresh_tokens: an
\* access token issued with a refresh token is accepted exactly while the
\* time is before its own exp, with the user id and family id of that
\* refresh token, also when every refresh token of the family has been
\* revoked.
C29_AccessTokenOutlivesItsFamily ==
    [][resp'.op = "requireAPIAuth" =>
         LET token == resp'.header.token
             family == RowsByFamily(api_refresh_tokens, token.sid)
         IN  /\ api_refresh_tokens' = api_refresh_tokens
             /\ resp'.next = (clock < token.exp)
             /\ resp'.next =>
                  \E r \in family :
                     resp'.claims = [UserID |-> r.user_id,
                                     SessionID |-> r.family_id]
             /\ ( /\ family # {}
                  /\ \A r \in family : r.revoked_at # NULL
                  /\ clock < token.exp ) => resp'.next]_vars

\* an access token was accepted while the two refresh tokens of its
\* family, the rotated one and its successor, are both revoked
C29_Witness ==
    /\ resp.op = "requireAPIAuth"
    /\ resp.next
    /\ LET family == RowsByFamily(api_refresh_tokens,
                                  resp.header.token.sid)
       IN  /\ Cardinality(family) = 2
           /\ \A r \in family : r.revoked_at # NULL
           /\ \E r \in family : r.replaced_by_token_id # NULL
           /\ \E r \in family : r.replaced_by_token_id = NULL

(***************************************************************************)
(* Sign-in handlers                                                        *)
(***************************************************************************)

\* C26: apiLogin answers 200 with a token pair exactly when it sets the
\* refresh cookie, and only after the verifier has returned a profile and
\* findOrCreateSocialUser a stored user with the identity of that profile:
\* the refresh token of the answer is then stored for that user and the
\* access token names that user.  A request that passes the checks of
\* provider and body and whose verifier fails is answered 401 "oauth login
\* failed", starts no sign-in and leaves users, user_identities and
\* api_refresh_tokens as they were; a sign-in is only ever started with a
\* profile of the verifier.
C26_LoginOnlyAfterVerification ==
    [][/\ (resp'.op = "login" /\ resp' # resp) =>
            /\ (resp'.status = 200) = (resp'.cookie = "set")
            /\ (resp'.status = 200) = (resp'.refresh_token # NULL)
            /\ resp'.status = 200 =>
                 LET c == ucall[1]
                 IN  /\ c.pc = "returned"
                     /\ c.caller = "apiLogin"
                     /\ c.profile \in VerifiedProfiles
                     /\ c.ret_err = ""
                     /\ c.ret_user \in users
                     /\ \E i \in user_identities :
                           /\ i.user_id = c.ret_user.id
                           /\ i.provider = c.profile.Provider
                           /\ i.provider_user_id = c.profile.ProviderUserID
                     /\ resp'.user = c.ret_user.id
                     /\ resp'.access_token.sub = formatUserID(c.ret_user.id)
                     /\ \E r \in api_refresh_tokens' \ api_refresh_tokens :
                           /\ r.token_hash = hashToken(resp'.refresh_token)
                           /\ r.user_id = c.ret_user.id
                           /\ r.family_id = resp'.access_token.sid
                           /\ r.revoked_at = NULL
            /\ ( /\ resp'.request # <<>>
                 /\ resp'.request[1] \in Providers
                 /\ resp'.request[2] = "complete"
                 /\ resp'.request[3] ) =>
                    /\ resp'.status = 401
                    /\ resp'.message = "oauth login failed"
            /\ resp'.status = 401 =>
                 /\ resp'.request[3]
                 /\ users' = users
                 /\ user_identities' = user_identities
                 /\ api_refresh_tokens' = api_refresh_tokens
                 /\ ucall' = ucall
                 /\ \A q \in Procs : ucall[q].pc = "idle"
       /\ (ucall[1].pc = "idle" /\ ucall'[1].pc = "sign_in") =>
            /\ ucall'[1].profile \in VerifiedProfiles
            /\ users' = users
            /\ user_identities' = user_identities]_vars

\* the verifier failed on a request with a configured provider and a
\* complete body after an earlier login had stored a user: the answer is
\* 401 and the tables hold that user, its identity and its refresh token
\* only
C26_Witness ==
    /\ resp.op = "login"
    /\ resp.status = 401
    /\ resp.request = <<"google", "complete", TRUE>>
    /\ resp.cookie = "none"
    /\ Cardinality(users) = 1
    /\ Cardinality(user_identities) = 1
    /\ Cardinality(api_refresh_tokens) = 1

\* C28: on the API a storage failure is answered as an Internal error, 500
\* or 503, with a generic message and never as 401: the login whose user
\* resolution fails or whose token pair cannot be issued, and the refresh
\* whose store call of the rotation fails.
C28_StorageFailureIsInternal ==
    [][LET internal ==
              /\ resp'.status \in {500, 503}
              /\ resp'.message \in {"failed to sign in user",
                                    "failed to issue tokens",
                                    "failed to refresh tokens"}
           answersLogin ==
              /\ ucall[1].pc = "returned"
              /\ ucall[1].caller = "apiLogin"
              /\ resp'.op = "login"
       IN  /\ (answersLogin
                /\ ucall[1].ret_err \notin {"", "ErrEmailConflict"})
              => internal
           /\ (answersLogin
                /\ ucall[1].ret_err = ""
                /\ api_refresh_tokens' = api_refresh_tokens)
              => internal
           /\ (resp'.op = "refresh" /\ resp'.result.err) => internal]_vars

\* C25: oauthCallback sets the session cookie exactly when it stores a
\* session, and only after consume returned a record of the provider of
\* the request (deleted by then), the verifier a profile of that provider
\* and findOrCreateSocialUser a stored user with the identity of that
\* profile; the session is then of that user, under the hash of the
\* cookie's token, and the redirect goes to the RedirectTo of the
\* record.  Every other answer of oauthCallback, and so the answer to a
\* failure of consume, of the verification, of the sign-in or of
\* createSession, is a 303 to /auth/login?error=... without cookie and
\* leaves user_sessions as it was; no other step changes user_sessions.
\* (The handler is at "consume" before consume and the verification, at
\* "returned" after the sign-in, and at "idle" once it has answered.)
C25_SessionOnlyAfterEveryStep ==
    [][LET c == ucall[1]
           errorRedirect ==
              /\ wresp'.op = "oauthCallback"
              /\ wresp'.status = 303
              /\ wresp'.redirect \in
                    {"/auth/login?error=oauth_failed",
                     "/auth/login?error=provider_not_configured",
                     "/auth/login?error=account_conflict"}
              /\ wresp'.cookie = "none"
              /\ wresp'.token = NULL
              /\ user_sessions' = user_sessions
           answers == c.pc = "returned" /\ c.caller = "oauthCallback"
       IN  /\ (wresp'.op = "oauthCallback" /\ wresp' # wresp) =>
                IF wresp'.cookie = "set"
                THEN /\ answers
                     /\ c.flow # NoFlow
                     /\ c.flow \notin flows
                     /\ c.flow.Provider = wresp'.path[3]
                     /\ c.profile \in VerifiedProfiles
                     /\ c.profile.Provider = c.flow.Provider
                     /\ c.ret_err = ""
                     /\ c.ret_user \in users
                     /\ \E i \in user_identities :
                           /\ i.user_id = c.ret_user.id
                           /\ i.provider = c.profile.Provider
                           /\ i.provider_user_id = c.profile.ProviderUserID
                     /\ \E x \in user_sessions' \ user_sessions :
                           /\ user_sessions' = user_sessions \cup {x}
                           /\ x.user_id = c.ret_user.id
                           /\ x.token_hash = hashToken(wresp'.token)
                           /\ x.revoked_at = NULL
                     /\ wresp'.status = 303
                     /\ wresp'.redirect = c.flow.RedirectTo
                ELSE errorRedirect
           /\ user_sessions' # user_sessions =>
                wresp'.op = "oauthCallback" /\ wresp'.cookie = "set"
           /\ (c.pc = "consume" /\ ucall'[1].pc = "idle") => errorRedirect
           /\ (answers /\ ucall'[1].pc = "idle") =>
                /\ c.ret_err # "" => errorRedirect
                /\ user_sessions' = user_sessions => errorRedirect]_vars

\* a callback has stored a session for the one user, and a later callback
\* with a flow of its own was just answered with the redirect for an
\* email conflict: no cookie, and the session of the first is the only one
C25_Witness ==
    /\ wresp.op = "oauthCallback"
    /\ wresp.redirect = "/auth/login?error=account_conflict"
    /\ wresp.cookie = "none"
    /\ Cardinality(user_sessions) = 1
    /\ Cardinality(users) = 1
    /\ flowSeq = MaxFlows + 1
    /\ flows = {}

(***************************************************************************)
(* Racing refreshes, permanence of revocation, logout                      *)
(***************************************************************************)

\* C31: of two refreshes under way with the same token, the one whose
\* select runs after the other's commit finds the row replaced and takes
\* the reuse path (unless its statement fails); a refresh that ends with the
\* reuse result is answered 401 and leaves every row of the family revoked,
\* the successor the winner was given included, with no rotation of the
\* family still open; and a select that finds a revoked row never goes on
\* to rotate it.
C31_RaceLoserRevokesWinnerToken ==
    [][\A p \in Procs :
          /\ (pc[p] = "rot_begin" /\ pc'[p] # "rot_begin") =>
                \A cur \in RowsByHash(api_refresh_tokens,
                                      hashToken(call[p].raw)) :
                   (cur.replaced_by_token_id # NULL \/ cur.revoked_at # NULL)
                   => \/ pc'[p] = "rot_reuse" /\ call'[p].current = cur
                      \/ /\ pc'[p] = "idle"
                         /\ resp'.result.err
                         /\ resp'.status = 401
          /\ ( /\ pc[p] = "rot_followup"
               /\ pc'[p] = "idle"
               /\ resp'.result.ReuseDetected ) =>
                LET cur == call[p].current
                IN /\ resp'.status = 401
                   /\ resp'.raw = call[p].raw
                   /\ \A x \in api_refresh_tokens' :
                         x.family_id = cur.family_id => x.revoked_at # NULL
                   /\ cur.replaced_by_token_id # NULL =>
                         \E x \in api_refresh_tokens' :
                            /\ x.id = cur.replaced_by_token_id
                            /\ x.family_id = cur.family_id
                            /\ x.revoked_at # NULL
                   /\ \A q \in Procs \ {p} :
                         pc[q] \in {"rot_insert", "rot_mark", "rot_commit"}
                            => call[q].current.family_id # cur.family_id
      ]_vars

\* the loser of a race was just answered 401 as reuse: it had read its time
\* before the winner read its own, ran its select after the winner's
\* commit, and the winner's new row carries the loser's earlier time as
\* its revoked_at
C31_Witness ==
    /\ resp.op = "refresh"
    /\ resp.status = 401
    /\ resp.result.ReuseDetected
    /\ \A p \in Procs : pc[p] = "idle"
    /\ \E r0, r1 \in api_refresh_tokens :
          /\ r0.token_hash = hashToken(resp.raw)
          /\ r0.replaced_by_token_id = r1.id
          /\ r1.family_id = r0.family_id
          /\ r1.replaced_by_token_id = NULL
          /\ r1.revoked_at # NULL
          /\ r1.revoked_at < r0.revoked_at
          /\ r1.revoked_at <= r0.expires_at
    /\ \A x \in api_refresh_tokens : x.revoked_at # NULL

(***************************************************************************)
(* Sign-in of a known identity                                             *)
(***************************************************************************)

\* C32: when an identity with the profile's (provider, provider_user_id)
\* exists, findOrCreateSocialUser goes on with the user of that identity
\* and never to the creation; its update adds and removes no user and no
\* identity, leaves every other user as it is, keeps the user's id and
\* email, changes the display name and the avatar only to the profile's
\* value and only when that value is not empty, an empty profile field
\* leaving the stored value; and the user it returns is the stored row of
\* the identity's user.
C32_KnownIdentityKeepsBlankFields ==
    [][\A p \in Procs :
          LET c == ucall[p]
              identityKeys(I) ==
                 {<<i.user_id, i.provider, i.provider_user_id>> : i \in I}
          IN /\ (c.pc = "idle" /\ ucall'[p].pc # "idle") =>
                   LET profile == ucall'[p].profile
                       found == FindByIdentity(profile.Provider,
                                               profile.ProviderUserID)
                   IN found # {} =>
                         /\ ucall'[p].pc = "update"
                         /\ ucall'[p].found \in found
                         /\ UNCHANGED <<users, user_identities>>
             /\ c.pc \in {"update", "find_id"} =>
                   ucall'[p].pc \in {"update", "find_id", "idle"}
             /\ (c.pc = "update" /\ ucall'[p].pc = "find_id") =>
                   /\ identityKeys(user_identities') =
                         identityKeys(user_identities)
                   /\ Cardinality(user_identities') =
                         Cardinality(user_identities)
                   /\ Cardinality(users') = Cardinality(users)
                   /\ \A u \in users :
                         \E v \in users' :
                            /\ v.id = u.id
                            /\ v.email = u.email
                            /\ u.id # c.found.id => v = u
                            /\ c.profile.Name = "" =>
                                  v.display_name = u.display_name
                            /\ c.profile.AvatarURL = "" =>
                                  v.avatar_url = u.avatar_url
                            /\ v.display_name # u.display_name =>
                                  /\ c.profile.Name # ""
                                  /\ v.display_name =
                                        TrimSpace(c.profile.Name)
                            /\ v.avatar_url # u.avatar_url =>
                                  /\ c.profile.AvatarURL # ""
                                  /\ v.avatar_url =
                                        TrimSpace(c.profile.AvatarURL)
             /\ (c.pc = "find_id" /\ ucall'[p].pc = "idle") =>
                   /\ UNCHANGED <<users, user_identities>>
                   /\ uresp'.err = "" =>
                         /\ uresp'.user \in users
                         /\ uresp'.user.id = c.found.id
                         /\ \E i \in user_identities :
                               /\ i.user_id = uresp'.user.id
                               /\ i.provider = c.profile.Provider
                               /\ i.provider_user_id =
                                     c.profile.ProviderUserID
      ]_vars

\* a sign-in with a profile that has no name and the avatar "pic" has just
\* returned the one user, whose display name is still the "Bob" of an
\* earlier profile and whose avatar is "pic"
C32_Witness ==
    /\ uresp.op = "findOrCreateSocialUser"
    /\ uresp.err = ""
    /\ uresp.profile.Name = ""
    /\ uresp.profile.AvatarURL = "pic"
    /\ uresp.user.display_name = "Bob"
    /\ uresp.user.avatar_url = "pic"
    /\ uresp.user \in users
    /\ Cardinality(users) = 1
    /\ Cardinality(user_identities) = 1

\* C33: a row whose revoked_at is set keeps its token hash and that very
\* revoked_at through every step of a rotation, a reuse detection, a family
\* revocation and a logout, and a refresh is answered 200 only for a token
\* whose row had no revoked_at before the step that answered.
C33_RevocationIsPermanent ==
    [][/\ \A r \in api_refresh_tokens :
            r.revoked_at # NULL =>
               \E x \in api_refresh_tokens' :
                  /\ x.id = r.id
                  /\ x.token_hash = r.token_hash
                  /\ x.revoked_at = r.revoked_at
       /\ (resp' # resp /\ resp'.op = "refresh" /\ resp'.status = 200) =>
            \E r \in api_refresh_tokens :
               /\ r.token_hash = hashToken(resp'.raw)
               /\ r.revoked_at = NULL
      ]_vars

\* a refresh at a later time has just presented a token that was revoked
\* before, neither rotated nor expired: it is answered 401 and the row
\* still carries the earlier revoked_at
C33_Witness ==
    /\ resp.op = "refresh"
    /\ resp.status = 401
    /\ resp.result.ReuseDetected
    /\ \E r \in api_refresh_tokens :
          /\ r.token_hash = hashToken(resp.raw)
          /\ r.replaced_by_token_id = NULL
          /\ r.revoked_at # NULL
          /\ r.revoked_at < clock
          /\ clock <= r.expires_at

\* C34: apiLogout adds and removes no row and leaves every row whose hash
\* is not that of the presented token exactly as it is; presenting a token
\* whose row is already rotated changes no row at all; and a refresh takes
\* the reuse path only for a row that is itself revoked, replaced or
\* expired, so that the family's current token still rotates.
C34_LogoutTouchesOnlyPresentedToken ==
    [][/\ (resp' # resp /\ resp'.op = "logout") =>
            /\ Cardinality(api_refresh_tokens') =
                  Cardinality(api_refresh_tokens)
            /\ resp'.raw = NULL => api_refresh_tokens' = api_refresh_tokens
            /\ resp'.raw # NULL =>
                  \A r \in api_refresh_tokens :
                     /\ r.token_hash # hashToken(resp'.raw) =>
                           r \in api_refresh_tokens'
                     /\ ( /\ r.token_hash = hashToken(resp'.raw)
                          /\ r.replaced_by_token_id # NULL ) =>
                           api_refresh_tokens' = api_refresh_tokens
       /\ (pc[1] = "idle" /\ pc'[1] = "rot_reuse") =>
            LET cur == call'[1].current
            IN \/ cur.revoked_at # NULL
               \/ cur.replaced_by_token_id # NULL
               \/ call'[1].now > cur.expires_at
       /\ (resp' # resp /\ resp'.op = "refresh" /\ pc[1] = "idle"
              /\ ~resp'.result.err) =>
            RowsByHash(api_refresh_tokens, hashToken(resp'.raw)) = {}
      ]_vars

\* apiLogout has just answered a request that presented the rotated token
\* of a family whose current token is neither revoked, replaced nor
\* expired
C34_Witness ==
    /\ resp.op = "logout"
    /\ resp.status = 204
    /\ resp.raw # NULL
    /\ ~resp.result.err
    /\ \E r0, r1 \in api_refresh_tokens :
          /\ r0.token_hash = hashToken(resp.raw)
          /\ r0.replaced_by_token_id = r1.id
          /\ r1.family_id = r0.family_id
          /\ r1.revoked_at = NULL
          /\ r1.replaced_by_token_id = NULL
          /\ clock <= r1.expires_at

(***************************************************************************)
(* Session lifetime, last-seen touch, skipped paths                        *)
(***************************************************************************)

\* C35: a session row is stored with expires_at = now + sessionTTL and
\* last_seen_at = now, and no step changes the expires_at or the token hash
\* of a stored row: the touch of loadSession sets last_seen_at only.
C35_ExpiryFixedAtCreation ==
    [][/\ \A x \in user_sessions, y \in user_sessions' :
            y.id = x.id =>
               /\ y.expires_at = x.expires_at
               /\ y.token_hash = x.token_hash
               /\ y.user_id = x.user_id
       /\ \A y \in user_sessions' :
            (\A x \in user_sessions : x.id # y.id) =>
               /\ y.expires_at = clock + sessionTTL
               /\ y.last_seen_at = clock
      ]_vars

\* loadSession has just attached the user of a session at the instant of
\* its expiry and touched it: last_seen_at is now, later than the creation,
\* and expires_at is still the creation time plus sessionTTL
C35_Witness ==
    /\ wresp.op = "loadSession"
    /\ wresp.currentUser # NULL
    /\ \E x \in user_sessions :
          /\ x.id = wresp.sess.id
          /\ x.last_seen_at = clock
          /\ x.last_seen_at > wresp.sess.last_seen_at
          /\ x.expires_at = wresp.sess.last_seen_at + sessionTTL
          /\ x.expires_at = clock

\* C36: when loadSession finds the session it read valid and idle for more
\* than touchAfter, it either sets last_seen_at of that row to now and
\* changes nothing else, or (the update failed) leaves the table as it
\* is; in both cases it attaches the session's user, calls the downstream
\* handler and does not clear the cookie.  A valid session idle for less
\* than touchAfter is not touched.
C36_TouchFailureIsNotFatal ==
    [][(wpc[1] = "ls_check" /\ wpc'[1] = "idle") =>
         LET sess == wcall[1].sess
             valid == sess.revoked_at = NULL /\ clock <= sess.expires_at
             touched ==
                {IF x.id = sess.id
                    THEN [x EXCEPT !.last_seen_at = clock]
                    ELSE x : x \in user_sessions}
         IN /\ (valid /\ clock - sess.last_seen_at > touchAfter) =>
                 /\ user_sessions' \in {touched, user_sessions}
                 /\ wresp'.currentUser = sess.user_id
                 /\ wresp'.next
                 /\ wresp'.cookie = "none"
                 /\ wresp'.redirect = ""
                 /\ ~wresp'.err
            /\ (valid /\ clock - sess.last_seen_at < touchAfter) =>
                 /\ user_sessions' = user_sessions
                 /\ wresp'.currentUser = sess.user_id
      ]_vars

\* loadSession has just attached the user of a valid session that had been
\* idle for more than touchAfter, and the stored row still has the old
\* last_seen_at: the touch failed
C36_Witness ==
    /\ wresp.op = "loadSession"
    /\ wresp.currentUser = wresp.sess.user_id
    /\ wresp.currentUser # NULL
    /\ wresp.next
    /\ wresp.cookie = "none"
    /\ wresp.now - wresp.sess.last_seen_at > touchAfter
    /\ wresp.sess \in user_sessions

\* C37: for a request whose path is /healthz or /api/health or begins with
\* /static/ or /api/, loadSession reads no cookie token, keeps no session
\* row for a check, changes no session row, clears no cookie, attaches no
\* user and calls the downstream handler, whatever cookie the request
\* carries.
C37_SkippedPathsLoadNoSession ==
    [][(/\ wpc[1] = "idle"
        /\ wresp'.op = "loadSession"
        /\ \/ wresp'.path \in {<<"healthz">>, <<"api", "health">>}
           \/ /\ Len(wresp'.path) >= 2
              /\ wresp'.path[1] \in {"static", "api"})
       => /\ wpc'[1] = "idle"
          /\ wresp'.token = NULL
          /\ wresp'.sess = NoSession
          /\ ~wresp'.lookupErr
          /\ wresp'.now = NULL
          /\ wresp'.cookie = "none"
          /\ wresp'.currentUser = NULL
          /\ wresp'.next
          /\ user_sessions' = user_sessions
      ]_vars

\* a request for /api/v1/me that carried the cookie of a session neither
\* revoked nor expired has just gone through loadSession without user, and
\* one for /static/app.js likewise
C37_Witness ==
    /\ wresp.op = "loadSession"
    /\ wresp.path \in {<<"api", "v1", "me">>, <<"static", "app.js">>}
    /\ wresp.sent # NULL
    /\ wresp.currentUser = NULL
    /\ wresp.cookie = "none"
    /\ wresp.next
    /\ \E x \in user_sessions :
          /\ x.token_hash = hashToken(wresp.sent)
          /\ x.revoked_at = NULL
          /\ clock <= x.expires_at
          /\ x.last_seen_at < clock

(***************************************************************************)
(* The web callback and its flow state                                     *)
(***************************************************************************)

\* C38: the step of oauthCallback that consumes the flow state leaves no
\* record under that state, whether the record is rejected, the provider
\* has no configuration, the exchange fails or the handler goes on; no
\* step stores a record under a state used before; and a callback whose
\* state has no record is answered with the oauth_failed redirect, without
\* sign-in and without session.
C38_StateIsSpentBeforeTheExchange ==
    [][/\ (ucall[1].pc = "consume" /\ ucall'[1].pc # "consume") =>
            /\ \A record \in flows' : record.State # ocall[1].state
            /\ FlowsAt(flows, ocall[1].state) = {} =>
                  /\ wresp'.op = "oauthCallback"
                  /\ wresp'.redirect = "/auth/login?error=oauth_failed"
                  /\ wresp'.cookie = "none"
                  /\ ucall'[1].pc = "idle"
                  /\ user_sessions' = user_sessions
       /\ \A record \in flows' :
            \/ record \in flows
            \/ record.State = flowSeq /\ flowSeq' = flowSeq + 1
       /\ flowSeq' >= flowSeq
       /\ \A record \in flows : record.State < flowSeq
      ]_vars

\* the one flow created so far was consumed by a callback that stored no
\* session, at a time when it had not expired, and a second callback with
\* the same state is at its consume: the state has no record
C38_Witness ==
    /\ ucall[1].pc = "consume"
    /\ ucall[1].caller = "oauthCallback"
    /\ ocall[1].op = "consume"
    /\ ocall[1].state = 1
    /\ ocall[1].provider \in Providers
    /\ flowSeq = 2
    /\ flows = {}
    /\ clock = 1
    /\ user_sessions = {}

(***************************************************************************)
(* Rate limiter: the buckets                                               *)
(***************************************************************************)

\* C39: after every step each bucket the limiter holds has a count of at
\* least 1 and at most limit; a request that is denied (429) found a bucket
\* under its key and leaves that bucket's count and windowStart as they
\* were, writing only its lastSeenAt, and every other bucket is left as it
\* was or removed by the cleanup.
C39_DeniedRequestKeepsWindow ==
    [][/\ \A k \in Keys :
            buckets'[k] # ZeroBucket =>
               /\ buckets'[k].count >= 1
               /\ buckets'[k].count <= limit
               /\ buckets'[k].windowStart >= 1
       /\ \A p \in Procs :
            ( /\ lcall[p].pc = "lock"
              /\ lcall'[p].pc = "idle"
              /\ lresp'.status = 429 ) =>
               LET key == lcall[p].key
               IN /\ buckets[key] # ZeroBucket
                  /\ buckets'[key].count = buckets[key].count
                  /\ buckets'[key].windowStart = buckets[key].windowStart
                  /\ buckets'[key].lastSeenAt = lcall[p].now
                  /\ \A k \in Keys \ {key} :
                        buckets'[k] \in {buckets[k], ZeroBucket}
      ]_vars

\* a request has just been denied: the bucket of its key is full, has the
\* windowStart it had, and a lastSeenAt that the denied request has
\* changed
C39_Witness ==
    /\ lresp.op = "limitByIP"
    /\ lresp.status = 429
    /\ buckets[lresp.key].count = limit
    /\ buckets[lresp.key].count = lresp.found.count
    /\ buckets[lresp.key].windowStart = lresp.found.windowStart
    /\ buckets[lresp.key].lastSeenAt = lresp.now
    /\ buckets[lresp.key].lastSeenAt # lresp.found.lastSeenAt

(***************************************************************************)
(* The redirect target of a social login                                   *)
(***************************************************************************)

\* C40: the target that startSocialLogin hands to create is the requested
\* one when that begins with "/" and not with "//", and /account when the
\* requested one is empty, blank, without leading slash (an absolute URL
\* among them) or protocol-relative; every target in a create under way,
\* in a stored flow record or in a consumed one begins with "/" and not
\* with "//", and so does the redirect of a callback that has set the
\* session cookie.
C40_RedirectTargetsAreLocal ==
    [][LET local(str) ==
              /\ Len(str) >= 1
              /\ SubSeq(str, 1, 1) = "/"
              /\ ~(Len(str) >= 2 /\ SubSeq(str, 1, 2) = "//")
       IN /\ (ocall[1] = NoOCall /\ ocall'[1].op = "create") =>
               LET next == wresp'.path[3]
               IN /\ wresp'.op = "startSocialLogin"
                  /\ next \in {"", " ", "account", "//evil.example",
                               "https://evil.example"} =>
                        ocall'[1].redirectTo = "/account"
                  /\ local(next) => ocall'[1].redirectTo = next
          /\ \A p \in Procs :
                /\ ocall'[p].op = "create" => local(ocall'[p].redirectTo)
                /\ ucall'[p].flow # NoFlow =>
                      local(ucall'[p].flow.RedirectTo)
          /\ \A record \in flows' : local(record.RedirectTo)
          /\ (wresp'.op = "oauthCallback" /\ wresp'.cookie = "set") =>
                local(wresp'.redirect)
      ]_vars

\* a login was started with next=//evil.example and its flow record is
\* stored with the target /account
C40_Witness ==
    /\ wresp.op = "startSocialLogin"
    /\ wresp.path[3] = "//evil.example"
    /\ oresp.op = "create"
    /\ oresp.record \in flows
    /\ oresp.record.RedirectTo = "/account"
    /\ oresp.record.State = flowSeq - 1

================================================================================
